---- MODULE Spec2Model ----
(***************************************************************************)
(* Model of the solar-thermal simulator (collector + pump + storage tank): *)
(* the physics functions, the pump hysteresis controller, the fixed-step   *)
(* integrators, the CSV-backed and synthetic weather sources with the      *)
(* piecewise-linear TimeSeries, the [weather] part of the configuration    *)
(* loader, the validation of the parameter sets, the CSV export, the       *)
(* run_simulation loop with its CLI and API callers, and the supervisor of *)
(* the demo web application.                                               *)
(*                                                                         *)
(* Python floats are modelled as exact rationals <<n, d>> in lowest terms  *)
(* with d > 0, so an arithmetic identity checked on them is an identity of *)
(* real arithmetic.  Where the rounding of the operations matters (the     *)
(* integrators on a constant derivative) the same expressions are also     *)
(* evaluated in a binary floating-point arithmetic of MantissaBits bits.   *)
(***************************************************************************)
EXTENDS Integers, Sequences, FiniteSets, TLC

(***************************************************************************)
(* Exact arithmetic standing in for Python's float operators.              *)
(***************************************************************************)
Abs(i) == IF i < 0 THEN -i ELSE i

RECURSIVE Gcd(_, _)
Gcd(a, b) == IF b = 0 THEN a ELSE Gcd(b, a % b)

Lcm(a, b) == (a \div Gcd(a, b)) * b

\* the rational n/d in lowest terms, d > 0
Q(n, d) ==
    LET s == IF d < 0 THEN -1 ELSE 1
        g == Gcd(Abs(n), Abs(d))
    IN  <<(s * n) \div g, (s * d) \div g>>

R(i) == <<i, 1>>

Add(a, b) ==
    LET l == Lcm(a[2], b[2])
    IN  Q(a[1] * (l \div a[2]) + b[1] * (l \div b[2]), l)

Sub(a, b) ==
    LET l == Lcm(a[2], b[2])
    IN  Q(a[1] * (l \div a[2]) - b[1] * (l \div b[2]), l)

Mul(a, b) ==
    LET g1 == Gcd(Abs(a[1]), b[2])
        g2 == Gcd(Abs(b[1]), a[2])
    IN  Q((a[1] \div g1) * (b[1] \div g2), (a[2] \div g2) * (b[2] \div g1))

\* a / b for b # 0 (every division of the modelled code is guarded)
Div(a, b) == Mul(a, Q(b[2], b[1]))

Lt(a, b) ==
    LET l == Lcm(a[2], b[2])
    IN  a[1] * (l \div a[2]) < b[1] * (l \div b[2])

Le(a, b) == ~Lt(b, a)
Gt(a, b) == Lt(b, a)
Ge(a, b) == ~Lt(a, b)

\* int(a // b) for a >= 0, b > 0
FloorDiv(a, b) == (a[1] * b[2]) \div (a[2] * b[1])

\* outcome of a call that either returns a float or raises
Returned(v) == [ok |-> TRUE, v |-> v, err |-> ""]
Raised(msg) == [ok |-> FALSE, v |-> R(0), err |-> msg]

(***************************************************************************)
(* Rounding arithmetic: binary floating point with MantissaBits            *)
(* significant bits, round-to-nearest-even, unbounded exponent.  Each      *)
(* operator rounds the exact result, as an IEEE operation does.            *)
(***************************************************************************)
MantissaBits == 6

RECURSIVE Pow2(_)
Pow2(k) == IF k = 0 THEN 1 ELSE 2 * Pow2(k - 1)

\* 2^k as a rational, for any integer k
Pow2Q(k) == IF k >= 0 THEN R(Pow2(k)) ELSE Q(1, Pow2(-k))

\* floor(log2(n / d)) for n, d > 0
RECURSIVE FloorLog2(_, _)
FloorLog2(n, d) ==
    IF n < d THEN FloorLog2(2 * n, d) - 1
    ELSE IF n >= 2 * d THEN FloorLog2(n, 2 * d) + 1
    ELSE 0

\* the exponent e with 2^(MantissaBits-1) <= x / 2^e < 2^MantissaBits, x > 0
Exponent(x) == FloorLog2(x[1], x[2]) - (MantissaBits - 1)

\* the integer nearest to the rational s > 0, ties to even
RoundHalfEven(s) ==
    IF 2 * (s[1] % s[2]) > s[2]
          \/ (2 * (s[1] % s[2]) = s[2] /\ (s[1] \div s[2]) % 2 = 1)
    THEN (s[1] \div s[2]) + 1
    ELSE s[1] \div s[2]

\* the float nearest to x > 0
RoundPositive(x) ==
    Mul(R(RoundHalfEven(Mul(x, Pow2Q(-Exponent(x))))), Pow2Q(Exponent(x)))

\* the float nearest to x
Float(x) ==
    IF x[1] = 0 THEN x
    ELSE IF x[1] < 0 THEN Sub(R(0), RoundPositive(Sub(R(0), x)))
    ELSE RoundPositive(x)

FAdd(a, b) == Float(Add(a, b))
FMul(a, b) == Float(Mul(a, b))
FDiv(a, b) == Float(Div(a, b))

(***************************************************************************)
(* params.py: the validators and the __post_init__ of each parameter set.  *)
(* A non-finite float is a pair with denominator 0: NaN, +inf, -inf.       *)
(* A validation yields [ok, fields, err, got]: the fields the message      *)
(* names, the message up to the value it ends with, and that value.        *)
(***************************************************************************)
NaN == <<0, 0>>
PosInf == <<1, 0>>
NegInf == <<-1, 0>>

\* math.isfinite
isfinite(value) == value[2] # 0

Valid == [ok |-> TRUE, fields |-> {}, err |-> "", got |-> <<>>]

Invalid(fields, msg, got) ==
    [ok |-> FALSE, fields |-> fields, err |-> msg, got |-> got]

require_finite(name, value) ==
    IF ~isfinite(value) THEN Invalid({name}, name \o " must be finite, got ", value)
    ELSE Valid

require_positive(name, value) ==
    IF ~isfinite(value) THEN Invalid({name}, name \o " must be finite, got ", value)
    ELSE IF Le(value, R(0)) THEN Invalid({name}, name \o " must be > 0, got ", value)
    ELSE Valid

require_non_negative(name, value) ==
    IF ~isfinite(value) THEN Invalid({name}, name \o " must be finite, got ", value)
    ELSE IF Lt(value, R(0)) THEN Invalid({name}, name \o " must be >= 0, got ", value)
    ELSE Valid

require_unit_interval(name, value) ==
    IF ~isfinite(value) THEN Invalid({name}, name \o " must be finite, got ", value)
    ELSE IF ~(Le(R(0), value) /\ Le(value, R(1)))
    THEN Invalid({name}, name \o " must be in [0, 1], got ", value)
    ELSE Valid

\* the outcome of statements run in order: that of the first that raises
RECURSIVE FirstRaised(_)
FirstRaised(checks) ==
    IF checks = <<>> THEN Valid
    ELSE IF ~Head(checks).ok THEN Head(checks)
    ELSE FirstRaised(Tail(checks))

CollectorParams_post_init(p) ==
    FirstRaised(<<
        require_positive("collector.area_m2", p.area_m2),
        require_unit_interval("collector.heat_removal_factor",
                              p.heat_removal_factor),
        require_unit_interval("collector.optical_efficiency",
                              p.optical_efficiency),
        require_non_negative("collector.loss_coefficient_w_m2k",
                             p.loss_coefficient_w_m2k)>>)

TankParams_post_init(p) ==
    FirstRaised(<<
        require_positive("tank.mass_kg", p.mass_kg),
        require_positive("tank.cp_j_kgk", p.cp_j_kgk),
        require_non_negative("tank.ua_w_k", p.ua_w_k),
        require_non_negative("tank.initial_temperature_k",
                             p.initial_temperature_k),
        require_non_negative("tank.room_temperature_k", p.room_temperature_k)>>)

PumpParams_post_init(p) ==
    require_non_negative("pump.mass_flow_kg_s", p.mass_flow_kg_s)

\* the comparison of params.py line 99, made only on finite values
deadband_order(p) ==
    IF isfinite(p.delta_t_on_k) /\ isfinite(p.delta_t_off_k)
          /\ Gt(p.delta_t_off_k, p.delta_t_on_k)
    THEN Invalid({"control.delta_t_off_k", "control.delta_t_on_k"},
                 "control.delta_t_off_k must be <= control.delta_t_on_k", <<>>)
    ELSE Valid

\* variant: the order of the deadband not checked
ControlParams_post_init_unordered(p) ==
    FirstRaised(<<
        require_non_negative("control.delta_t_on_k", p.delta_t_on_k),
        require_non_negative("control.delta_t_off_k", p.delta_t_off_k),
        require_non_negative("control.min_irradiance_w_m2",
                             p.min_irradiance_w_m2)>>)

ControlParams_post_init(p) ==
    FirstRaised(<<
        require_non_negative("control.delta_t_on_k", p.delta_t_on_k),
        require_non_negative("control.delta_t_off_k", p.delta_t_off_k),
        deadband_order(p),
        require_non_negative("control.min_irradiance_w_m2",
                             p.min_irradiance_w_m2)>>)

\* variant: a zero step accepted
SimulationParams_post_init_zero_dt(p) ==
    FirstRaised(<<
        require_finite("simulation.t0_s", p.t0_s),
        require_non_negative("simulation.dt_s", p.dt_s),
        require_non_negative("simulation.duration_s", p.duration_s)>>)

SimulationParams_post_init(p) ==
    FirstRaised(<<
        require_finite("simulation.t0_s", p.t0_s),
        require_positive("simulation.dt_s", p.dt_s),
        require_non_negative("simulation.duration_s", p.duration_s)>>)

\* a frozen dataclass: the fields are stored as passed, then __post_init__
dataclass(p, check) ==
    [ok |-> check.ok, fields |-> check.fields, err |-> check.err,
     got |-> check.got, obj |-> IF check.ok THEN p ELSE <<>>]

CollectorParams(p) == dataclass(p, CollectorParams_post_init(p))

TankParams(p) == dataclass(p, TankParams_post_init(p))

PumpParams(p) == dataclass(p, PumpParams_post_init(p))

ControlParams(p) == dataclass(p, ControlParams_post_init(p))

SimulationParams(p) == dataclass(p, SimulationParams_post_init(p))

(***************************************************************************)
(* physics.py                                                              *)
(***************************************************************************)
\* variant: no clamping
clamp_min_none(value, minimum) == value

clamp_min(value, minimum) == IF Ge(value, minimum) THEN value ELSE minimum

collector_useful_heat_w(t_in_k, t_amb_outdoor_k, irradiance, collector) ==
    LET q_u == Mul(Mul(collector.area_m2, collector.heat_removal_factor),
                   Sub(Mul(collector.optical_efficiency, irradiance),
                       Mul(collector.loss_coefficient_w_m2k,
                           Sub(t_in_k, t_amb_outdoor_k))))
    IN  clamp_min(q_u, R(0))

\* variant: with no flow the heat still warms the outlet
collector_outlet_k_stagnation(t_in_k, q_u_w, m_dot_kg_s, cp_j_kgk) ==
    IF Le(m_dot_kg_s, R(0))
    THEN Add(t_in_k, Div(q_u_w, cp_j_kgk))
    ELSE Add(t_in_k, Div(q_u_w, Mul(m_dot_kg_s, cp_j_kgk)))

collector_outlet_k(t_in_k, q_u_w, m_dot_kg_s, cp_j_kgk) ==
    IF Le(m_dot_kg_s, R(0))
    THEN t_in_k
    ELSE Add(t_in_k, Div(q_u_w, Mul(m_dot_kg_s, cp_j_kgk)))

tank_dTdt_k_s(t_tank, t_out_k, t_room_k, m_dot_kg_s, tank) ==
    LET mixing_term == Mul(Div(m_dot_kg_s, tank.mass_kg), Sub(t_out_k, t_tank))
        loss_term == Mul(Div(tank.ua_w_k, Mul(tank.mass_kg, tank.cp_j_kgk)),
                         Sub(t_tank, t_room_k))
    IN  Sub(mixing_term, loss_term)

(***************************************************************************)
(* control.py                                                              *)
(***************************************************************************)
\* variant: the ON and OFF thresholds exchanged
update_pump_state_swapped(on, t_tank, t_amb_outdoor_k, irradiance, collector, pump, tank, control) ==
    IF ~control.enabled THEN TRUE
    ELSE IF Lt(irradiance, control.min_irradiance_w_m2) THEN FALSE
    ELSE
      LET t_out_nom_k ==
              collector_outlet_k(t_tank,
                  collector_useful_heat_w(t_tank, t_amb_outdoor_k, irradiance,
                                          collector),
                  pump.mass_flow_kg_s, tank.cp_j_kgk)
      IN  IF on
          THEN Gt(t_out_nom_k, Add(t_tank, control.delta_t_on_k))
          ELSE Gt(t_out_nom_k, Add(t_tank, control.delta_t_off_k))

\* variant: the irradiance floor tested before the enabled flag
update_pump_state_min_first(on, t_tank, t_amb_outdoor_k, irradiance, collector, pump, tank, control) ==
    IF Lt(irradiance, control.min_irradiance_w_m2) THEN FALSE
    ELSE IF ~control.enabled THEN TRUE
    ELSE
      LET t_out_nom_k ==
              collector_outlet_k(t_tank,
                  collector_useful_heat_w(t_tank, t_amb_outdoor_k, irradiance,
                                          collector),
                  pump.mass_flow_kg_s, tank.cp_j_kgk)
      IN  IF on
          THEN Gt(t_out_nom_k, Add(t_tank, control.delta_t_off_k))
          ELSE Gt(t_out_nom_k, Add(t_tank, control.delta_t_on_k))

\* variant: the irradiance floor applied only to a pump that is off
update_pump_state_min_when_off(on, t_tank, t_amb_outdoor_k, irradiance, collector, pump, tank, control) ==
    IF ~control.enabled THEN TRUE
    ELSE IF ~on /\ Lt(irradiance, control.min_irradiance_w_m2) THEN FALSE
    ELSE
      LET t_out_nom_k ==
              collector_outlet_k(t_tank,
                  collector_useful_heat_w(t_tank, t_amb_outdoor_k, irradiance,
                                          collector),
                  pump.mass_flow_kg_s, tank.cp_j_kgk)
      IN  IF on
          THEN Gt(t_out_nom_k, Add(t_tank, control.delta_t_off_k))
          ELSE Gt(t_out_nom_k, Add(t_tank, control.delta_t_on_k))

\* variant: between the two thresholds the state is toggled, not held
update_pump_state_toggle(on, t_tank, t_amb_outdoor_k, irradiance, collector, pump, tank, control) ==
    IF ~control.enabled THEN TRUE
    ELSE IF Lt(irradiance, control.min_irradiance_w_m2) THEN FALSE
    ELSE
      LET t_out_nom_k ==
              collector_outlet_k(t_tank,
                  collector_useful_heat_w(t_tank, t_amb_outdoor_k, irradiance,
                                          collector),
                  pump.mass_flow_kg_s, tank.cp_j_kgk)
      IN  IF Gt(t_out_nom_k, Add(t_tank, control.delta_t_on_k)) THEN TRUE
          ELSE IF ~Gt(t_out_nom_k, Add(t_tank, control.delta_t_off_k))
          THEN FALSE
          ELSE ~on

\* variant: the nominal outlet computed for a unit flow, not the design flow
update_pump_state_unit_flow(on, t_tank, t_amb_outdoor_k, irradiance, collector, pump, tank, control) ==
    IF ~control.enabled THEN TRUE
    ELSE IF Lt(irradiance, control.min_irradiance_w_m2) THEN FALSE
    ELSE
      LET t_out_nom_k ==
              collector_outlet_k(t_tank,
                  collector_useful_heat_w(t_tank, t_amb_outdoor_k, irradiance,
                                          collector),
                  R(1), tank.cp_j_kgk)
      IN  IF on
          THEN Gt(t_out_nom_k, Add(t_tank, control.delta_t_off_k))
          ELSE Gt(t_out_nom_k, Add(t_tank, control.delta_t_on_k))

update_pump_state(on, t_tank, t_amb_outdoor_k, irradiance, collector, pump, tank, control) ==
    IF ~control.enabled THEN TRUE
    ELSE IF Lt(irradiance, control.min_irradiance_w_m2) THEN FALSE
    ELSE
      LET q_u_nom_w == collector_useful_heat_w(t_tank, t_amb_outdoor_k,
                                               irradiance, collector)
          t_out_nom_k == collector_outlet_k(t_tank, q_u_nom_w,
                                            pump.mass_flow_kg_s, tank.cp_j_kgk)
      IN  IF on
          THEN Gt(t_out_nom_k, Add(t_tank, control.delta_t_off_k))
          ELSE Gt(t_out_nom_k, Add(t_tank, control.delta_t_on_k))

(***************************************************************************)
(* time_series.py: a TimeSeries is [times_s, values], two sequences.       *)
(***************************************************************************)
\* variant: equal neighbouring times accepted
TimeSeries_post_init_nondecreasing(times, values) ==
    IF Len(times) # Len(values)
    THEN "TimeSeries.times_s and TimeSeries.values must have the same length"
    ELSE IF Len(times) < 2
    THEN "TimeSeries must have at least 2 points"
    ELSE IF \E i \in 1..(Len(times) - 1) : Lt(times[i + 1], times[i])
    THEN "TimeSeries.times_s must be strictly increasing"
    ELSE ""

\* TimeSeries.__post_init__: "" when construction succeeds, else the message
TimeSeries_post_init(times, values) ==
    IF Len(times) # Len(values)
    THEN "TimeSeries.times_s and TimeSeries.values must have the same length"
    ELSE IF Len(times) < 2
    THEN "TimeSeries must have at least 2 points"
    ELSE IF \E i \in 1..(Len(times) - 1) : Le(times[i + 1], times[i])
    THEN "TimeSeries.times_s must be strictly increasing"
    ELSE ""

\* variant: the two branches of the search exchanged
RECURSIVE bisect_inverted(_, _, _, _)
bisect_inverted(times, t, lo, hi) ==
    IF hi - lo > 1
    THEN LET mid == (lo + hi) \div 2
         IN  IF Le(times[mid], t)
             THEN bisect_inverted(times, t, lo, mid)
             ELSE bisect_inverted(times, t, mid, hi)
    ELSE <<lo, hi>>

\* the while loop of value_at; indices are 1-based here, 0-based in the source
RECURSIVE bisect(_, _, _, _)
bisect(times, t, lo, hi) ==
    IF hi - lo > 1
    THEN LET mid == (lo + hi) \div 2
         IN  IF Le(times[mid], t)
             THEN bisect(times, t, mid, hi)
             ELSE bisect(times, t, lo, mid)
    ELSE <<lo, hi>>

\* variant: the messages of the two bounds exchanged
value_at_messages_exchanged(series, t, extrapolation) ==
    LET times == series.times_s
        values == series.values
        n == Len(times)
    IN  IF Le(t, times[1])
        THEN IF extrapolation = "clamp" THEN Returned(values[1])
             ELSE IF extrapolation = "zero" THEN Returned(R(0))
             ELSE Raised("ValueError: t_s is after end of series")
        ELSE IF Ge(t, times[n])
        THEN IF extrapolation = "clamp" THEN Returned(values[n])
             ELSE IF extrapolation = "zero" THEN Returned(R(0))
             ELSE Raised("ValueError: t_s is before start of series")
        ELSE LET b == bisect(times, t, 1, n)
                 t0 == times[b[1]]
                 t1 == times[b[2]]
                 v0 == values[b[1]]
                 v1 == values[b[2]]
             IN  IF t1 = t0 THEN Returned(v0)
                 ELSE Returned(Add(v0, Mul(Div(Sub(t, t0), Sub(t1, t0)),
                                           Sub(v1, v0))))

value_at(series, t, extrapolation) ==
    LET times == series.times_s
        values == series.values
        n == Len(times)
    IN  IF Le(t, times[1])
        THEN IF extrapolation = "clamp" THEN Returned(values[1])
             ELSE IF extrapolation = "zero" THEN Returned(R(0))
             ELSE Raised("ValueError: t_s is before start of series")
        ELSE IF Ge(t, times[n])
        THEN IF extrapolation = "clamp" THEN Returned(values[n])
             ELSE IF extrapolation = "zero" THEN Returned(R(0))
             ELSE Raised("ValueError: t_s is after end of series")
        ELSE LET b == bisect(times, t, 1, n)
                 t0 == times[b[1]]
                 t1 == times[b[2]]
                 v0 == values[b[1]]
                 v1 == values[b[2]]
             IN  IF t1 = t0 THEN Returned(v0)
                 ELSE Returned(Add(v0, Mul(Div(Sub(t, t0), Sub(t1, t0)),
                                           Sub(v1, v0))))

(***************************************************************************)
(* weather.py: the CSV-backed weather source.  A weather config carries    *)
(* the parsed rows <<time_s, irradiance_w_m2, ambient_k>> of its file.     *)
(***************************************************************************)
Column(rows, k) == [i \in 1..Len(rows) |-> rows[i][k]]

NoSeries == [times_s |-> <<>>, values |-> <<>>]

NoWeather ==
    [irradiance_w_m2_series |-> NoSeries,
     ambient_temperature_k_series |-> NoSeries,
     extrapolation |-> "clamp"]

\* [ok, weather, err]: the CsvWeather built, or the ValueError raised
read_csv_weather(wconfig) ==
    LET times == Column(wconfig.rows, 1)
        g == Column(wconfig.rows, 2)
        t_amb == Column(wconfig.rows, 3)
    IN  IF Len(times) < 2
        THEN [ok |-> FALSE, weather |-> NoWeather,
              err |-> "ValueError: must have at least 2 rows"]
        ELSE IF TimeSeries_post_init(times, g) # ""
        THEN [ok |-> FALSE, weather |-> NoWeather,
              err |-> "ValueError: " \o TimeSeries_post_init(times, g)]
        ELSE [ok |-> TRUE,
              weather |-> [irradiance_w_m2_series |->
                               [times_s |-> times, values |-> g],
                           ambient_temperature_k_series |->
                               [times_s |-> times, values |-> t_amb],
                           extrapolation |-> wconfig.extrapolation],
              err |-> ""]

build_weather(wconfig) == read_csv_weather(wconfig)

\* The file itself: a header of column names and data rows of text cells.
\* csv.DictReader maps each header name to the row's cell at that position,
\* and to None when the row is shorter than the header.
IndexOf(header, name) == CHOOSE k \in 1..Len(header) : header[k] = name

DictReader_cell(header, row, name) ==
    IF IndexOf(header, name) <= Len(row)
    THEN [present |-> TRUE, text |-> row[IndexOf(header, name)]]
    ELSE [present |-> FALSE, text |-> ""]

\* the texts float() parses, with the float each denotes
Numerals ==
    [text \in {"0", "1", "2", "5"} |->
        CASE text = "0" -> R(0) [] text = "1" -> R(1)
          [] text = "2" -> R(2) [] text = "5" -> R(5)]

\* float(row[column]): KeyError, TypeError for None, ValueError for a text
\* that is no number, else the float
float_cell(header, row, name) ==
    IF \A k \in 1..Len(header) : header[k] # name
    THEN [exc |-> "KeyError", v |-> R(0)]
    ELSE IF ~DictReader_cell(header, row, name).present
    THEN [exc |-> "TypeError", v |-> R(0)]
    ELSE IF DictReader_cell(header, row, name).text \notin DOMAIN Numerals
    THEN [exc |-> "ValueError", v |-> R(0)]
    ELSE [exc |-> "", v |-> Numerals[DictReader_cell(header, row, name).text]]

\* the three float() calls of the try block on one row, in order
parse_row(header, row, cfg) ==
    LET t == float_cell(header, row, cfg.time_column)
        g == float_cell(header, row, cfg.irradiance_column)
        a == float_cell(header, row, cfg.ambient_column)
    IN  IF t.exc # "" THEN [exc |-> t.exc, v |-> <<>>]
        ELSE IF g.exc # "" THEN [exc |-> g.exc, v |-> <<>>]
        ELSE IF a.exc # "" THEN [exc |-> a.exc, v |-> <<>>]
        ELSE [exc |-> "", v |-> <<t.v, g.v, a.v>>]

\* what leaves the try block when a float() call raises exc
csv_row_error(exc) ==
    CASE exc = "KeyError" ->
           [ok |-> FALSE, weather |-> NoWeather, exc |-> "ValueError",
            err |-> "ValueError: Missing column"]
      [] exc = "ValueError" ->
           [ok |-> FALSE, weather |-> NoWeather, exc |-> "ValueError",
            err |-> "ValueError: Invalid numeric value"]
      [] OTHER ->
           [ok |-> FALSE, weather |-> NoWeather, exc |-> exc,
            err |-> exc \o ": float() argument must be a string or a real number"]

\* the rest of _read_csv_weather once every row is parsed
csv_parsed(rows, cfg) ==
    LET built == read_csv_weather([rows |-> rows,
                                   extrapolation |-> cfg.extrapolation])
    IN  [ok |-> built.ok, weather |-> built.weather,
         exc |-> IF built.ok THEN "" ELSE "ValueError", err |-> built.err]

\* _read_csv_weather from row i on, the rows before it parsed
RECURSIVE read_csv_file(_, _, _, _)
read_csv_file(file, cfg, i, parsed) ==
    IF i > Len(file.rows) THEN csv_parsed(parsed, cfg)
    ELSE IF parse_row(file.header, file.rows[i], cfg).exc # ""
    THEN csv_row_error(parse_row(file.header, file.rows[i], cfg).exc)
    ELSE read_csv_file(file, cfg, i + 1,
             Append(parsed, parse_row(file.header, file.rows[i], cfg).v))

CsvWeather_irradiance_w_m2(w, t) ==
    value_at(w.irradiance_w_m2_series, t, w.extrapolation)

CsvWeather_ambient_temperature_k(w, t) ==
    value_at(w.ambient_temperature_k_series, t, w.extrapolation)

(***************************************************************************)
(* weather.py: the synthetic weather source.  math.cos is modelled at the  *)
(* angles whose cosine is rational (multiples of pi/3 and of pi/2); the    *)
(* inputs drawn below put every evaluated angle on one of them.            *)
(***************************************************************************)
\* cos(pi * x)
cos_pi(x) ==
    LET a == Q(x[1] % (2 * x[2]), x[2])
    IN  CASE a = R(0) -> R(1)
          [] a = Q(1, 3) -> Q(1, 2)
          [] a = Q(1, 2) -> R(0)
          [] a = Q(2, 3) -> Q(-1, 2)
          [] a = R(1) -> R(-1)
          [] a = Q(4, 3) -> Q(-1, 2)
          [] a = Q(3, 2) -> R(0)
          [] a = Q(5, 3) -> Q(1, 2)

irradiance_clear_day_w_m2(t, sunrise_s, sunset_s, peak_w_m2) ==
    IF Lt(t, sunrise_s) \/ Gt(t, sunset_s)
    THEN R(0)
    ELSE Div(Mul(peak_w_m2,
                 Sub(R(1), cos_pi(Div(Sub(t, sunrise_s),
                                      Sub(sunset_s, sunrise_s))))),
             R(2))

ambient_sinusoid_k(t, mean_k, amplitude_k, period_s) ==
    Add(mean_k, Mul(amplitude_k, cos_pi(Div(Mul(R(2), t), period_s))))

\* the names a call of ambient_sinusoid_k may bind (weather.py line 61)
ambient_sinusoid_k_parameters == {"t_s", "mean_k", "amplitude_k", "period_s"}

\* ambient_sinusoid_k(**kw): kw maps the names the caller passes to values
ambient_sinusoid_k_kw(kw) ==
    IF DOMAIN kw # ambient_sinusoid_k_parameters
    THEN Raised("TypeError: ambient_sinusoid_k() got an unexpected or missing keyword argument")
    ELSE Returned(ambient_sinusoid_k(kw.t_s, kw.mean_k, kw.amplitude_k,
                                     kw.period_s))

\* the fields of the dataclass SyntheticWeatherConfig (weather.py lines 31-36)
SyntheticWeatherConfig_fields ==
    {"sunrise_s", "sunset_s", "peak_irradiance_w_m2", "ambient_mean_k",
     "ambient_amplitude_k", "ambient_period_s"}

NoSyntheticConfig == [f \in SyntheticWeatherConfig_fields |-> R(0)]

\* SyntheticWeatherConfig(**kw): [ok, config, err]
SyntheticWeatherConfig(kw) ==
    IF DOMAIN kw # SyntheticWeatherConfig_fields
    THEN [ok |-> FALSE, config |-> NoSyntheticConfig,
          err |-> "TypeError: SyntheticWeatherConfig.__init__() got an unexpected or missing keyword argument"]
    ELSE [ok |-> TRUE, config |-> kw, err |-> ""]

\* build_weather on a SyntheticWeatherConfig
SyntheticWeather(cfg) == [config |-> cfg]

SyntheticWeather_irradiance_w_m2(w, t) ==
    irradiance_clear_day_w_m2(t, w.config.sunrise_s, w.config.sunset_s,
                              w.config.peak_irradiance_w_m2)

SyntheticWeather_ambient_temperature_k(w, t) ==
    ambient_sinusoid_k(t, w.config.ambient_mean_k,
                       w.config.ambient_amplitude_k, w.config.ambient_period_s)

(***************************************************************************)
(* config.py: the [weather] table of a configuration file, a function from *)
(* the keys present to their values.                                       *)
(***************************************************************************)
Get(table, key, default) == IF key \in DOMAIN table THEN table[key] ELSE default

\* the keywords _parse_weather passes to SyntheticWeatherConfig
parse_weather_synthetic_kw(table, ambient_period_s) ==
    [sunrise_s |-> Get(table, "sunrise_s", R(6 * 3600)),
     sunset_s |-> Get(table, "sunset_s", R(18 * 3600)),
     peak_irradiance_w_m2 |-> Get(table, "peak_irradiance_w_m2", R(850)),
     ambient_mean_k |-> Get(table, "ambient_mean_k", Q(29315, 100)),
     ambient_amplitude_k |-> Get(table, "ambient_amplitude_k", R(6)),
     ambient_period_s |-> ambient_period_s,
     ambient_peak_s |-> Get(table, "ambient_peak_s",
                            Mul(Q(625, 1000), ambient_period_s))]

\* _parse_weather: [ok, config, err]
parse_weather(table) ==
    IF Get(table, "kind", "synthetic") = "synthetic"
    THEN SyntheticWeatherConfig(
             parse_weather_synthetic_kw(table,
                 Get(table, "ambient_period_s", R(24 * 3600))))
    ELSE IF Get(table, "kind", "synthetic") # "csv"
    THEN [ok |-> FALSE, config |-> NoSyntheticConfig,
          err |-> "ValueError: Unsupported weather.kind"]
    ELSE IF "csv_path" \notin DOMAIN table
    THEN [ok |-> FALSE, config |-> NoSyntheticConfig,
          err |-> "ValueError: Missing required key 'weather.csv_path'"]
    ELSE IF Get(table, "extrapolation", "clamp") \notin {"clamp", "zero", "error"}
    THEN [ok |-> FALSE, config |-> NoSyntheticConfig,
          err |-> "ValueError: weather.extrapolation must be one of: 'clamp', 'zero', 'error'"]
    ELSE [ok |-> TRUE,
          config |-> [csv_path |-> table.csv_path,
                      time_column |-> Get(table, "time_column", "time_s"),
                      irradiance_column |->
                          Get(table, "irradiance_column", "irradiance_w_m2"),
                      ambient_column |-> Get(table, "ambient_column", "ambient_k"),
                      extrapolation |-> Get(table, "extrapolation", "clamp")],
          err |-> ""]

(***************************************************************************)
(* cli.py: the CSV export.  The outcome records what the call did to the   *)
(* file system: whether the output directory was created and the file      *)
(* opened, and the header and rows written.  A cell is the text the csv    *)
(* writer makes of a value.                                                *)
(***************************************************************************)
Min(a, b) == IF a <= b THEN a ELSE b

\* str() of a float or an int, as csv.DictWriter writes it
Text(value) == [text |-> value]

\* int(on)
int(on) == IF on THEN 1 ELSE 0

fieldnames ==
    <<"time_s", "tank_temperature_k", "ambient_temperature_k",
      "irradiance_w_m2", "pump_on">>

\* the rows of the loop over zip(...): as many as the shortest sequence
csv_rows(times, tank, ambient, irradiance, on) ==
    [i \in 1..Min(Len(times), Min(Len(tank), Min(Len(ambient),
                  Min(Len(irradiance), Len(on))))) |->
        [time_s |-> Text(times[i]),
         tank_temperature_k |-> Text(tank[i]),
         ambient_temperature_k |-> Text(ambient[i]),
         irradiance_w_m2 |-> Text(irradiance[i]),
         pump_on |-> Text(int(on[i]))]]

written_csv(times, tank, ambient, irradiance, on) ==
    [ok |-> TRUE, err |-> "", mkdir |-> TRUE, opened |-> TRUE,
     header |-> fieldnames,
     rows |-> csv_rows(times, tank, ambient, irradiance, on)]

\* variant: the lengths not compared
write_results_csv_unchecked(times, tank, ambient, irradiance, on) ==
    written_csv(times, tank, ambient, irradiance, on)

write_results_csv(times, tank, ambient, irradiance, on) ==
    IF \E length \in {Len(tank), Len(ambient), Len(irradiance), Len(on)} :
           length # Len(times)
    THEN [ok |-> FALSE, err |-> "ValueError: Result series length mismatch",
          mkdir |-> FALSE, opened |-> FALSE, header |-> <<>>, rows |-> <<>>]
    ELSE written_csv(times, tank, ambient, irradiance, on)

(***************************************************************************)
(* simulation.py: the closure rhs of one step, closing over the step's     *)
(* m_dot_kg_s, the room temperature, the weather and the configuration.    *)
(* The record it returns also notes what the call sampled.                 *)
(***************************************************************************)
RhsCall(ok, v, err, local_t, local_y, m_dot, g, t_amb) ==
    [ok |-> ok, v |-> v, err |-> err, t |-> local_t, y |-> local_y,
     m_dot |-> m_dot, g |-> g, t_amb |-> t_amb]

\* the body of rhs once the weather of the sub-stage has been sampled
rhs_sampled(cfg, m_dot_kg_s, t_room_k, local_t_s, local_t_tank_k, local_g, local_t_amb_k) ==
    IF ~local_g.ok
    THEN RhsCall(FALSE, R(0), local_g.err, local_t_s, local_t_tank_k,
                 m_dot_kg_s, R(0), R(0))
    ELSE IF ~local_t_amb_k.ok
    THEN RhsCall(FALSE, R(0), local_t_amb_k.err, local_t_s, local_t_tank_k,
                 m_dot_kg_s, local_g.v, R(0))
    ELSE RhsCall(TRUE,
                 tank_dTdt_k_s(local_t_tank_k,
                     collector_outlet_k(local_t_tank_k,
                         collector_useful_heat_w(local_t_tank_k, local_t_amb_k.v,
                                                 local_g.v, cfg.collector),
                         m_dot_kg_s, cfg.tank.cp_j_kgk),
                     t_room_k, m_dot_kg_s, cfg.tank),
                 "", local_t_s, local_t_tank_k, m_dot_kg_s,
                 local_g.v, local_t_amb_k.v)

\* the flow a closure that ran the controller again would use
recontrolled_m_dot(cfg, m_dot_kg_s, local_t_tank_k, local_g, local_t_amb_k) ==
    IF ~local_g.ok \/ ~local_t_amb_k.ok THEN m_dot_kg_s
    ELSE IF update_pump_state(Gt(m_dot_kg_s, R(0)), local_t_tank_k,
                              local_t_amb_k.v, local_g.v, cfg.collector,
                              cfg.pump, cfg.tank, cfg.control)
         THEN cfg.pump.mass_flow_kg_s ELSE R(0)

\* variant: the controller is run again inside the closure, on the weather
\* of the sub-stage
rhs_recontrol(w, cfg, m_dot_kg_s, t_room_k, local_t_s, local_t_tank_k) ==
    rhs_sampled(cfg,
                recontrolled_m_dot(cfg, m_dot_kg_s, local_t_tank_k,
                                   CsvWeather_irradiance_w_m2(w, local_t_s),
                                   CsvWeather_ambient_temperature_k(w, local_t_s)),
                t_room_k, local_t_s, local_t_tank_k,
                CsvWeather_irradiance_w_m2(w, local_t_s),
                CsvWeather_ambient_temperature_k(w, local_t_s))

rhs(w, cfg, m_dot_kg_s, t_room_k, local_t_s, local_t_tank_k) ==
    rhs_sampled(cfg, m_dot_kg_s, t_room_k, local_t_s, local_t_tank_k,
                CsvWeather_irradiance_w_m2(w, local_t_s),
                CsvWeather_ambient_temperature_k(w, local_t_s))

(***************************************************************************)
(* numerics.py.  The right-hand side f handed to a stepper is a closure: a *)
(* record of what it captured; Apply(f, t, y) calls it and returns a call  *)
(* record [ok, v, err, ...].  A raising f ends the step with its exception.*)
(***************************************************************************)
\* f(t, y): for the closure built by run_simulation (simulation.py line 75),
\* or for a function returning the same constant everywhere
\* (tests/test_numerics.py: lambda _t, _y: 2.0)
Apply(f, t, y) ==
    IF "constant" \in DOMAIN f
    THEN RhsCall(TRUE, f.constant, "", t, y, R(0), R(0), R(0))
    ELSE rhs(f.weather, f.config, f.m_dot_kg_s, f.t_room_k, t, y)

\* the calls of f made by one RK4 step, in order, up to the first that raises
rk4_calls_4(t, y, dt_s, f, k1, k2, k3) ==
    IF ~k3.ok THEN <<k1, k2, k3>>
    ELSE <<k1, k2, k3, Apply(f, Add(t, dt_s), Add(y, Mul(dt_s, k3.v)))>>

rk4_calls_3(t, y, dt_s, f, k1, k2) ==
    IF ~k2.ok THEN <<k1, k2>>
    ELSE rk4_calls_4(t, y, dt_s, f, k1, k2,
             Apply(f, Add(t, Div(dt_s, R(2))),
                   Add(y, Div(Mul(dt_s, k2.v), R(2)))))

rk4_calls_2(t, y, dt_s, f, k1) ==
    IF ~k1.ok THEN <<k1>>
    ELSE rk4_calls_3(t, y, dt_s, f, k1,
             Apply(f, Add(t, Div(dt_s, R(2))),
                   Add(y, Div(Mul(dt_s, k1.v), R(2)))))

rk4_calls(t, y, dt_s, f) == rk4_calls_2(t, y, dt_s, f, Apply(f, t, y))

\* y + (dt/6)*(k1 + 2*k2 + 2*k3 + k4), or the exception of the call that raised
rk4_result(y, dt_s, ks) ==
    IF ~ks[Len(ks)].ok THEN Raised(ks[Len(ks)].err)
    ELSE Returned(Add(y, Mul(Div(dt_s, R(6)),
             Add(Add(Add(ks[1].v, Mul(R(2), ks[2].v)),
                     Mul(R(2), ks[3].v)), ks[4].v))))

\* variant: the four slopes averaged with equal weights
rk4_result_unweighted(y, dt_s, ks) ==
    IF ~ks[Len(ks)].ok THEN Raised(ks[Len(ks)].err)
    ELSE Returned(Add(y, Mul(Div(dt_s, R(6)),
             Add(Add(Add(ks[1].v, ks[2].v), ks[3].v), ks[4].v))))

\* variant of rk4_step using it
rk4_step_unweighted(t, y, dt_s, f) ==
    rk4_result_unweighted(y, dt_s, rk4_calls(t, y, dt_s, f))

rk4_step(t, y, dt_s, f) == rk4_result(y, dt_s, rk4_calls(t, y, dt_s, f))

euler_result(y, dt_s, k) ==
    IF ~k.ok THEN Raised(k.err) ELSE Returned(Add(y, Mul(dt_s, k.v)))

\* variant: half the step taken
euler_step_half(t, y, dt_s, f) ==
    euler_result(y, Div(dt_s, R(2)), Apply(f, t, y))

euler_step(t, y, dt_s, f) == euler_result(y, dt_s, Apply(f, t, y))

\* the same two steps under rounding arithmetic
rk4_step_float_4(y, dt_s, k1, k2, k3, k4) ==
    FAdd(y, FMul(FDiv(dt_s, R(6)),
                 FAdd(FAdd(FAdd(k1, FMul(R(2), k2)), FMul(R(2), k3)), k4)))

rk4_step_float_3(t, y, dt_s, f, k1, k2, k3) ==
    rk4_step_float_4(y, dt_s, k1, k2, k3,
                     Apply(f, FAdd(t, dt_s), FAdd(y, FMul(dt_s, k3))).v)

rk4_step_float_2(t, y, dt_s, f, k1, k2) ==
    rk4_step_float_3(t, y, dt_s, f, k1, k2,
                     Apply(f, FAdd(t, FDiv(dt_s, R(2))),
                           FAdd(y, FDiv(FMul(dt_s, k2), R(2)))).v)

rk4_step_float_1(t, y, dt_s, f, k1) ==
    rk4_step_float_2(t, y, dt_s, f, k1,
                     Apply(f, FAdd(t, FDiv(dt_s, R(2))),
                           FAdd(y, FDiv(FMul(dt_s, k1), R(2)))).v)

rk4_step_float(t, y, dt_s, f) ==
    rk4_step_float_1(t, y, dt_s, f, Apply(f, t, y).v)

euler_step_float(t, y, dt_s, f) == FAdd(y, FMul(dt_s, Apply(f, t, y).v))

(***************************************************************************)
(* Inputs.  Every configuration drawn here passes the validation of        *)
(* params.py (positive mass, c_p, area and dt; F_R, eta0 in [0, 1];        *)
(* delta_t_off <= delta_t_on; everything else >= 0).                       *)
(***************************************************************************)
MaxDuration == 3
MaxRuns == 3
MaxProbeIrradiance == 6

Rows(rows) == [i \in 1..Len(rows) |-> <<R(rows[i][1]), R(rows[i][2]), R(rows[i][3])>>]

Collector(area, eta0, u_l) ==
    [area_m2 |-> area, heat_removal_factor |-> R(1),
     optical_efficiency |-> eta0, loss_coefficient_w_m2k |-> u_l]

Tank(mass, cp, ua, t_init, t_room) ==
    [mass_kg |-> mass, cp_j_kgk |-> cp, ua_w_k |-> ua,
     initial_temperature_k |-> t_init, room_temperature_k |-> t_room]

Pump(flow) == [mass_flow_kg_s |-> flow]

Control(enabled, on, off, min_g) ==
    [enabled |-> enabled, delta_t_on_k |-> R(on), delta_t_off_k |-> R(off),
     min_irradiance_w_m2 |-> R(min_g)]

Sim(t0, dt, duration) == [t0_s |-> R(t0), dt_s |-> R(dt), duration_s |-> R(duration)]

CsvConfig(rows, extrapolation) == [rows |-> Rows(rows), extrapolation |-> extrapolation]

Controls ==
    {Control(FALSE, 3, 1, 3), Control(TRUE, 3, 1, 0), Control(TRUE, 4, 2, 0),
     Control(TRUE, 3, 1, 3), Control(TRUE, 2, 2, 0)}

\* irradiance 2, 4, 6, 4, 2 and ambient 5, 5, 5, 6, 7 at t = 0, 1, 2, 3, 4
VaryingRows == <<<<0, 2, 5>>, <<2, 6, 5>>, <<4, 2, 7>>>>
SteadyRows == <<<<0, 2, 5>>, <<4, 2, 5>>>>
\* tests/test_config_and_simulation.py: "0,100,300" and "100,100,300"
ReferenceRows == <<<<0, 100, 300>>, <<100, 100, 300>>>>

Weathers ==
    {CsvConfig(VaryingRows, m) : m \in {"clamp", "zero", "error"}}
        \cup {CsvConfig(SteadyRows, "clamp")}

GeneralConfigs ==
    {[collector |-> Collector(R(1), R(1), R(u_l)),
      tank |-> Tank(R(1), R(1), R(ua), R(t_init), R(5)),
      pump |-> Pump(R(flow)),
      control |-> c,
      sim |-> Sim(t0, dt, duration),
      weather |-> w] :
        u_l \in {0, 1}, ua \in {0, 1}, t_init \in {4, 6}, flow \in {0, 1},
        c \in Controls, t0 \in {0, 1}, dt \in {1, 2},
        duration \in 0..MaxDuration, w \in Weathers}

\* the end-to-end scenario of the tests and runs like it: no losses, pump
\* forced on, constant weather
ReferenceConfig ==
    [collector |-> Collector(R(1), R(1), R(0)),
     tank |-> Tank(R(10), R(10), R(0), R(300), R(300)),
     pump |-> Pump(R(1)),
     control |-> Control(FALSE, 2, 1, 25),
     sim |-> Sim(0, 1, 10),
     weather |-> CsvConfig(ReferenceRows, "clamp")]

LinearConfigs ==
    {[ReferenceConfig EXCEPT !.collector = Collector(R(area), eta0, R(0)),
                             !.tank.mass_kg = R(mass),
                             !.sim = Sim(t0, dt, duration)] :
        area \in {1, 2}, eta0 \in {R(1), Q(1, 2)}, mass \in {10, 4},
        t0 \in {0, 7}, dt \in {1, 2}, duration \in {4, 10}}

Configs == GeneralConfigs \cup LinearConfigs

\* configurations run more than once in one session
RepeatConfigs ==
    {[collector |-> Collector(R(1), R(1), R(0)),
      tank |-> Tank(R(1), R(1), R(1), R(4), R(5)),
      pump |-> Pump(R(1)),
      control |-> Control(TRUE, 3, 1, 0),
      sim |-> Sim(t0, 1, 1),
      weather |-> CsvConfig(VaryingRows, m)] :
        t0 \in {0, 1}, m \in {"clamp", "error"}}

Pool(m) == IF m = "single" THEN Configs ELSE RepeatConfigs

\* arguments of direct calls of update_pump_state (tests/test_control.py)
ProbeInputs(m) ==
    {[on |-> on, t_tank |-> R(t), t_amb |-> R(5), g |-> R(g),
      collector |-> Collector(R(1), R(1), R(u_l)), pump |-> Pump(R(flow)),
      tank |-> Tank(R(1), R(cp), R(0), R(t), R(5)), control |-> c] :
        on \in BOOLEAN, t \in {4, 6},
        g \in IF m = "single" THEN 0..MaxProbeIrradiance ELSE {2},
        u_l \in IF m = "single" THEN {0, 1} ELSE {0},
        flow \in IF m = "single" THEN {0, 1} ELSE {1},
        cp \in IF m = "single" THEN {1, 2} ELSE {1},
        c \in IF m = "single" THEN Controls ELSE {Control(TRUE, 3, 1, 0)}}

(***************************************************************************)
(* State: the locals of run_simulation, its position, its caller, and a    *)
(* record of what the run did (controller calls, right-hand-side calls).   *)
(***************************************************************************)
VARIABLES
    mode,                   \* "single": one call; "repeat": several calls
    calls_left,             \* top-level calls still to be made
    pc,                     \* "idle", "sample", "integrate", "returned", "raised"
    caller,                 \* "direct" (run_simulation(config)) or "cli"
    solver,                 \* the --solver option of the CLI call, else ""
    config,                 \* the SimulationConfig of the current call
    weather,                \* build_weather(config.weather)
    t_s, t_tank_k, pump_on, step, n_steps,
    times_s, tank_temperature_k, ambient_temperature_k, irradiance_w_m2,
    pump_on_series,
    step_log,               \* per integration step, the calls of rhs it made
    controller_calls,       \* calls of update_pump_state made by this run
    ctl,                    \* the latest call of update_pump_state
    error,                  \* the exception a raising call ended with
    result,                 \* the SimulationResult returned
    history,                \* outcomes of the finished calls, in order
    probe,                  \* the latest direct call of a library function
    webapp                  \* the demo supervisor: position, children, list

vars ==
    <<mode, calls_left, pc, caller, solver, config, weather, t_s, t_tank_k,
      pump_on, step, n_steps, times_s, tank_temperature_k,
      ambient_temperature_k, irradiance_w_m2, pump_on_series, step_log,
      controller_calls, ctl, error, result, history, probe, webapp>>

locals ==
    <<t_s, t_tank_k, pump_on, step, n_steps, times_s, tank_temperature_k,
      ambient_temperature_k, irradiance_w_m2, pump_on_series>>

NoResult ==
    [times_s |-> <<>>, tank_temperature_k |-> <<>>,
     ambient_temperature_k |-> <<>>, irradiance_w_m2 |-> <<>>, pump_on |-> <<>>]

NoCall ==
    [called |-> FALSE, on |-> FALSE, t_tank |-> R(0), t_amb |-> R(0), g |-> R(0),
     collector |-> ReferenceConfig.collector, pump |-> ReferenceConfig.pump,
     tank |-> ReferenceConfig.tank, control |-> ReferenceConfig.control,
     out |-> FALSE]

ControllerCall(a) ==
    [called |-> TRUE, on |-> a.on, t_tank |-> a.t_tank, t_amb |-> a.t_amb,
     g |-> a.g, collector |-> a.collector, pump |-> a.pump, tank |-> a.tank,
     control |-> a.control,
     out |-> update_pump_state(a.on, a.t_tank, a.t_amb, a.g, a.collector,
                               a.pump, a.tank, a.control)]

\* a direct call of a library function: its name, arguments and outcome,
\* and what it computed on the way
Probe(fn, args, out, trace) == [fn |-> fn, args |-> args, out |-> out, trace |-> trace]

NoProbe == Probe("", <<>>, <<>>, <<>>)

Outcome(c, who, status, err, res) ==
    [config |-> c, caller |-> who, status |-> status, error |-> err,
     result |-> res]

\* the demo supervisor once both signal handlers are registered (cli.py
\* line 151): no child started, the process list empty
Children == {"backend", "frontend"}

Registered ==
    [pc |-> "start_backend", why |-> "", i |-> 1, processes |-> <<>>,
     child |-> [c \in Children |-> "none"], signals |-> 0]

InitWith(m, calls) ==
    /\ mode = m
    /\ calls_left = calls
    /\ pc = "idle"
    /\ caller = ""
    /\ solver = ""
    /\ config = ReferenceConfig
    /\ weather = NoWeather
    /\ t_s = R(0)
    /\ t_tank_k = R(0)
    /\ pump_on = FALSE
    /\ step = 0
    /\ n_steps = 0
    /\ times_s = <<>>
    /\ tank_temperature_k = <<>>
    /\ ambient_temperature_k = <<>>
    /\ irradiance_w_m2 = <<>>
    /\ pump_on_series = <<>>
    /\ step_log = <<>>
    /\ controller_calls = 0
    /\ ctl = NoCall
    /\ error = ""
    /\ result = NoResult
    /\ history = <<>>
    /\ probe = NoProbe
    /\ webapp = Registered

Init == InitWith("single", 1)

InitRepeat == InitWith("repeat", MaxRuns)

Callable == pc \in {"idle", "returned", "raised"} /\ calls_left > 0

\* a call that ends by raising err before any local is set
RaiseAtEntry(c, who, err) ==
    /\ pc' = "raised"
    /\ error' = err
    /\ history' = Append(history, Outcome(c, who, "raised", err, NoResult))
    /\ weather' = NoWeather
    /\ t_s' = R(0)
    /\ t_tank_k' = R(0)
    /\ pump_on' = FALSE
    /\ step' = 0
    /\ n_steps' = 0
    /\ times_s' = <<>>
    /\ tank_temperature_k' = <<>>
    /\ ambient_temperature_k' = <<>>
    /\ irradiance_w_m2' = <<>>
    /\ pump_on_series' = <<>>

\* variant: pump_on survives from the previous call
run_simulation_entry_stale(c, who) ==
    LET built == build_weather(c.weather)
    IN  IF ~built.ok
        THEN RaiseAtEntry(c, who, built.err)
        ELSE /\ pc' = "sample"
             /\ error' = ""
             /\ weather' = built.weather
             /\ times_s' = <<>>
             /\ tank_temperature_k' = <<>>
             /\ ambient_temperature_k' = <<>>
             /\ irradiance_w_m2' = <<>>
             /\ pump_on_series' = <<>>
             /\ t_s' = c.sim.t0_s
             /\ t_tank_k' = c.tank.initial_temperature_k
             /\ pump_on' = pump_on
             /\ n_steps' = FloorDiv(c.sim.duration_s, c.sim.dt_s)
             /\ step' = 0
             /\ UNCHANGED history

\* simulation.py lines 31-47: build the weather, initialise the locals
run_simulation_entry(c, who) ==
    LET built == build_weather(c.weather)
    IN  IF ~built.ok
        THEN RaiseAtEntry(c, who, built.err)
        ELSE /\ pc' = "sample"
             /\ error' = ""
             /\ weather' = built.weather
             /\ times_s' = <<>>
             /\ tank_temperature_k' = <<>>
             /\ ambient_temperature_k' = <<>>
             /\ irradiance_w_m2' = <<>>
             /\ pump_on_series' = <<>>
             /\ t_s' = c.sim.t0_s
             /\ t_tank_k' = c.tank.initial_temperature_k
             /\ pump_on' = FALSE
             /\ n_steps' = FloorDiv(c.sim.duration_s, c.sim.dt_s)
             /\ step' = 0
             /\ UNCHANGED history

\* the parameters run_simulation declares (simulation.py line 31)
run_simulation_parameters == {"config"}

\* a caller invokes run_simulation(config)
run_simulation_call ==
    /\ Callable
    /\ \E c \in Pool(mode) :
         /\ config' = c
         /\ run_simulation_entry(c, "direct")
    /\ caller' = "direct"
    /\ solver' = ""
    /\ calls_left' = calls_left - 1
    /\ step_log' = <<>>
    /\ controller_calls' = 0
    /\ result' = NoResult
    /\ UNCHANGED <<mode, ctl, probe, webapp>>

\* cli.py run(): load_config, then run_simulation(sim_config, solver=solver);
\* a keyword the callee does not declare makes the call raise TypeError
cli_run ==
    /\ Callable
    /\ \E c \in Pool(mode), s \in {"rk4", "euler"} :
         /\ config' = c
         /\ solver' = s
         /\ IF {"config", "solver"} \subseteq run_simulation_parameters
            THEN run_simulation_entry(c, "cli")
            ELSE RaiseAtEntry(c, "cli", "TypeError: unexpected keyword argument")
    /\ caller' = "cli"
    /\ calls_left' = calls_left - 1
    /\ step_log' = <<>>
    /\ controller_calls' = 0
    /\ result' = NoResult
    /\ UNCHANGED <<mode, ctl, probe, webapp>>

\* a caller invokes update_pump_state directly
update_pump_state_call ==
    /\ Callable
    /\ \E a \in ProbeInputs(mode) : ctl' = ControllerCall(a)
    /\ calls_left' = calls_left - 1
    /\ UNCHANGED <<mode, pc, caller, solver, config, weather, locals, step_log,
                   controller_calls, error, result, history, probe, webapp>>

\* the run ends by raising err from inside the loop
RaiseInLoop(err) ==
    /\ pc' = "raised"
    /\ error' = err
    /\ history' = Append(history, Outcome(config, caller, "raised", err, NoResult))

\* the flag appended to the pump-on series: the controller's decision of this
\* sample (simulation.py lines 52 and 67)
\* variant: the series gets the flag the step started with
sample_flag_stale(prior, decision) == prior

sample_flag(prior, decision) == decision

\* variant: the loop stops one sample early
is_final_step_early(i, n) == i + 1 >= n

\* variant: the loop leaves one index later
is_final_step_late(i, n) == i = n + 1

\* the break after the last sample (simulation.py lines 48 and 69)
is_final_step(i, n) == i = n

\* simulation.py lines 48-70 and 103-109: sample the weather, run the
\* controller, append the sample; after the last sample, return
loop_sample ==
    /\ pc = "sample"
    /\ LET g == CsvWeather_irradiance_w_m2(weather, t_s)
           t_amb_k == CsvWeather_ambient_temperature_k(weather, t_s)
       IN  IF ~g.ok \/ ~t_amb_k.ok
           THEN /\ RaiseInLoop(IF ~g.ok THEN g.err ELSE t_amb_k.err)
                /\ UNCHANGED <<locals, controller_calls, ctl, result>>
           ELSE LET call == ControllerCall(
                                [on |-> pump_on, t_tank |-> t_tank_k,
                                 t_amb |-> t_amb_k.v, g |-> g.v,
                                 collector |-> config.collector,
                                 pump |-> config.pump, tank |-> config.tank,
                                 control |-> config.control])
                IN  /\ ctl' = call
                    /\ controller_calls' = controller_calls + 1
                    /\ pump_on' = call.out
                    /\ pump_on_series' =
                           Append(pump_on_series, sample_flag(pump_on, call.out))
                    /\ times_s' = Append(times_s, t_s)
                    /\ tank_temperature_k' = Append(tank_temperature_k, t_tank_k)
                    /\ ambient_temperature_k' =
                           Append(ambient_temperature_k, t_amb_k.v)
                    /\ irradiance_w_m2' = Append(irradiance_w_m2, g.v)
                    /\ IF is_final_step(step, n_steps)
                       THEN /\ pc' = "returned"
                            /\ result' =
                                 [times_s |-> times_s',
                                  tank_temperature_k |-> tank_temperature_k',
                                  ambient_temperature_k |-> ambient_temperature_k',
                                  irradiance_w_m2 |-> irradiance_w_m2',
                                  pump_on |-> pump_on_series']
                            /\ history' = Append(history,
                                 Outcome(config, caller, "returned", "", result'))
                       ELSE /\ pc' = "integrate"
                            /\ UNCHANGED <<result, history>>
                    /\ UNCHANGED <<error, t_s, t_tank_k, step, n_steps>>
    /\ UNCHANGED <<mode, calls_left, caller, solver, config, weather, step_log,
                   probe, webapp>>

\* variant: the design flow whatever the pump flag
step_m_dot_kg_s_always(on, pump) == pump.mass_flow_kg_s

\* the flow the step's closure captures (simulation.py line 72)
step_m_dot_kg_s(on, pump) == IF on THEN pump.mass_flow_kg_s ELSE R(0)

\* simulation.py lines 72-101: build rhs, advance the tank one RK4 step
loop_integrate ==
    /\ pc = "integrate"
    /\ LET m_dot_kg_s == step_m_dot_kg_s(pump_on, config.pump)
           t_room_k == config.tank.room_temperature_k
           f == [weather |-> weather, config |-> config,
                 m_dot_kg_s |-> m_dot_kg_s, t_room_k |-> t_room_k]
           next == rk4_step(t_s, t_tank_k, config.sim.dt_s, f)
       IN  /\ step_log' = Append(step_log,
                                 rk4_calls(t_s, t_tank_k, config.sim.dt_s, f))
           /\ IF ~next.ok
              THEN /\ RaiseInLoop(next.err)
                   /\ UNCHANGED <<t_s, t_tank_k, step>>
              ELSE /\ t_tank_k' = next.v
                   /\ t_s' = Add(t_s, config.sim.dt_s)
                   /\ step' = step + 1
                   /\ pc' = "sample"
                   /\ UNCHANGED <<error, history>>
    /\ UNCHANGED <<mode, calls_left, caller, solver, config, weather, pump_on,
                   n_steps, times_s, tank_temperature_k, ambient_temperature_k,
                   irradiance_w_m2, pump_on_series, controller_calls, ctl,
                   result, probe, webapp>>

Next ==
    \/ run_simulation_call
    \/ cli_run
    \/ update_pump_state_call
    \/ loop_sample
    \/ loop_integrate

Spec == Init /\ [][Next]_vars

SpecRepeat == InitRepeat /\ [][Next]_vars

(***************************************************************************)
(* Direct calls of the library functions, as the unit tests make them: one *)
(* call per session, its arguments drawn from the sets below.              *)
(***************************************************************************)
MaxSeriesLen == 3
MaxQueryTime == 9

Seqs(S, n) == UNION {[1..k -> S] : k \in 0..n}

\* arguments of TimeSeries(times_s=..., values=...), valid or not
GridCandidates == Seqs({R(0), R(1), R(2)}, MaxSeriesLen)
ValueCandidates == Seqs({R(1), R(3)}, MaxSeriesLen)

Series(times, values) ==
    [times_s |-> [i \in 1..Len(times) |-> R(times[i])],
     values |-> [i \in 1..Len(values) |-> R(values[i])]]

\* series that construct; the first is that of tests/test_time_series.py
SeriesPool ==
    {Series(<<0, 10>>, <<1, 3>>),
     Series(<<0, 2, 3>>, <<1, 5, 2>>),
     Series(<<1, 2, 4, 8>>, <<3, 1, 7, 7>>),
     Series(<<0, 1, 2, 3, 4>>, <<2, 4, 1, 5, 3>>),
     Series(<<0, 1, 3, 4, 6, 7>>, <<6, 5, 4, 3, 2, 1>>)}

QueryTimes == {Q(k, 2) : k \in (-2)..(2 * MaxQueryTime)}

ExtrapolationModes == {"clamp", "zero", "error"}

CollectorInputs ==
    {[t_in_k |-> R(t_in), t_amb_outdoor_k |-> R(5), irradiance |-> R(g),
      collector |-> [area_m2 |-> R(area), heat_removal_factor |-> f_r,
                     optical_efficiency |-> eta0,
                     loss_coefficient_w_m2k |-> R(u_l)]] :
        t_in \in {4, 6, 10}, g \in {0, 2, 6}, area \in {1, 2},
        f_r \in {R(1), Q(1, 2)}, eta0 \in {R(0), Q(1, 2), R(1)},
        u_l \in {0, 1, 2}}

OutletInputs ==
    {[t_in_k |-> R(t_in), q_u_w |-> R(q_u), m_dot_kg_s |-> m_dot,
      cp_j_kgk |-> R(cp)] :
        t_in \in {4, 300}, q_u \in {0, 100, 4180},
        m_dot \in {R(-1), R(0), Q(1, 2), R(1), R(2)}, cp \in {1, 2, 4180}}

StepInputs ==
    {[t |-> R(t), y |-> R(y), dt_s |-> dt, f |-> [constant |-> c]] :
        t \in {0, 1}, y \in {0, 1}, dt \in {Q(1, 10), R(1), R(2)},
        c \in {R(-1), R(0), Q(1, 10), Q(1, 3), Q(7, 10), R(2)}}

\* the same arguments as floats
FloatStepInputs ==
    {[t |-> Float(a.t), y |-> Float(a.y), dt_s |-> Float(a.dt_s),
      f |-> [constant |-> Float(a.f.constant)]] : a \in StepInputs}

SecondsPerDay == 24 * 3600

\* x is an angle (in units of pi) at which cos_pi is defined
HasRationalCosine(x) ==
    Q(x[1] % (2 * x[2]), x[2]) \in
        {R(0), Q(1, 3), Q(1, 2), Q(2, 3), R(1), Q(4, 3), Q(3, 2), Q(5, 3)}

\* the first window is that of tests/test_weather.py
IrradianceInputs ==
    {a \in [t : {R(t) : t \in (-1)..26}, sunrise_s : {R(10), R(0), R(6)},
            sunset_s : {R(20), R(6), R(18)}, peak_w_m2 : {R(100), R(1)}] :
        /\ Lt(a.sunrise_s, a.sunset_s)
        /\ \/ Lt(a.t, a.sunrise_s)
           \/ Gt(a.t, a.sunset_s)
           \/ HasRationalCosine(Div(Sub(a.t, a.sunrise_s),
                                    Sub(a.sunset_s, a.sunrise_s)))}

\* keywords of SyntheticWeatherConfig(...): tests/test_weather.py lines 57-66
\* with and without the ambient_peak_s the test passes
SyntheticKeywords ==
    {[sunrise_s |-> R(10), sunset_s |-> R(20), peak_irradiance_w_m2 |-> R(100),
      ambient_mean_k |-> R(300), ambient_amplitude_k |-> R(0),
      ambient_period_s |-> R(SecondsPerDay)],
     [sunrise_s |-> R(10), sunset_s |-> R(20), peak_irradiance_w_m2 |-> R(100),
      ambient_mean_k |-> R(300), ambient_amplitude_k |-> R(0),
      ambient_period_s |-> R(SecondsPerDay), ambient_peak_s |-> R(0)],
     [sunrise_s |-> R(0), sunset_s |-> R(6), peak_irradiance_w_m2 |-> R(1),
      ambient_mean_k |-> R(300), ambient_amplitude_k |-> R(0),
      ambient_period_s |-> R(SecondsPerDay)]}

\* keywords of ambient_sinusoid_k(...): tests/test_weather.py lines 33-37
\* (with peak_s) and the call of weather.py lines 81-86 (without)
AmbientKeywords ==
    {[t_s |-> R(t), mean_k |-> R(300), amplitude_k |-> R(5),
      period_s |-> R(100)] : t \in {0, 25, 50, 75, 100}}
      \cup {[t_s |-> R(t), mean_k |-> R(300), amplitude_k |-> R(5),
             period_s |-> R(100), peak_s |-> R(p)] :
               t \in {0, 25, 50, 75, 100}, p \in {0, 25}}

\* [weather] tables of configuration files
WeatherTables ==
    {<<>>,
     [kind |-> "synthetic"],
     [kind |-> "synthetic", sunrise_s |-> R(10), sunset_s |-> R(20)],
     [kind |-> "synthetic", ambient_period_s |-> R(100),
      ambient_peak_s |-> R(25)],
     [kind |-> "csv", csv_path |-> "weather.csv"],
     [kind |-> "csv", csv_path |-> "weather.csv", extrapolation |-> "error"],
     [kind |-> "csv", csv_path |-> "weather.csv", extrapolation |-> "linear"],
     [kind |-> "csv"],
     [kind |-> "tmy"]}

\* what a direct call leaves alone
LibraryFrame ==
    /\ calls_left' = calls_left - 1
    /\ UNCHANGED <<mode, pc, caller, solver, config, weather, locals, step_log,
                   controller_calls, ctl, error, result, history, webapp>>

\* TimeSeries(times_s=times, values=values)
TimeSeries_call ==
    /\ Callable
    /\ \E times \in GridCandidates, values \in ValueCandidates :
           probe' = Probe("TimeSeries",
                             [times_s |-> times, values |-> values],
                             [ok |-> TimeSeries_post_init(times, values) = "",
                              err |-> TimeSeries_post_init(times, values)],
                             <<>>)
    /\ LibraryFrame

\* TimeSeries(...).value_at(t, extrapolation=m); the trace is the pair of
\* indices the binary search ends with when it runs
value_at_call ==
    /\ Callable
    /\ \E series \in SeriesPool, t \in QueryTimes, m \in ExtrapolationModes :
           /\ TimeSeries_post_init(series.times_s, series.values) = ""
           /\ probe' = Probe("value_at",
                                [series |-> series, t |-> t, extrapolation |-> m],
                                value_at(series, t, m),
                                IF Le(t, series.times_s[1])
                                    \/ Ge(t, series.times_s[Len(series.times_s)])
                                THEN <<>>
                                ELSE bisect(series.times_s, t, 1,
                                            Len(series.times_s)))
    /\ LibraryFrame

collector_useful_heat_w_call ==
    /\ Callable
    /\ \E a \in CollectorInputs :
           probe' = Probe("collector_useful_heat_w", a,
                             collector_useful_heat_w(a.t_in_k, a.t_amb_outdoor_k,
                                                     a.irradiance, a.collector),
                             <<>>)
    /\ LibraryFrame

collector_outlet_k_call ==
    /\ Callable
    /\ \E a \in OutletInputs :
           probe' = Probe("collector_outlet_k", a,
                             collector_outlet_k(a.t_in_k, a.q_u_w, a.m_dot_kg_s,
                                                a.cp_j_kgk),
                             <<>>)
    /\ LibraryFrame

euler_step_call ==
    /\ Callable
    /\ \E a \in StepInputs :
           probe' = Probe("euler_step", a,
                             euler_step(a.t, a.y, a.dt_s, a.f), <<>>)
    /\ LibraryFrame

rk4_step_call ==
    /\ Callable
    /\ \E a \in StepInputs :
           probe' = Probe("rk4_step", a,
                             rk4_step(a.t, a.y, a.dt_s, a.f),
                             rk4_calls(a.t, a.y, a.dt_s, a.f))
    /\ LibraryFrame

euler_step_float_call ==
    /\ Callable
    /\ \E a \in FloatStepInputs :
           probe' = Probe("euler_step (float)", a,
                          euler_step_float(a.t, a.y, a.dt_s, a.f), <<>>)
    /\ LibraryFrame

rk4_step_float_call ==
    /\ Callable
    /\ \E a \in FloatStepInputs :
           probe' = Probe("rk4_step (float)", a,
                          rk4_step_float(a.t, a.y, a.dt_s, a.f), <<>>)
    /\ LibraryFrame

irradiance_clear_day_w_m2_call ==
    /\ Callable
    /\ \E a \in IrradianceInputs :
           probe' = Probe("irradiance_clear_day_w_m2", a,
                             irradiance_clear_day_w_m2(a.t, a.sunrise_s,
                                                       a.sunset_s, a.peak_w_m2),
                             <<>>)
    /\ LibraryFrame

\* what w.irradiance_w_m2 returns at t and one day later
SyntheticIrradiance(built, t) ==
    IF ~built.ok
    THEN [ok |-> FALSE, err |-> built.err, g |-> R(0), g_next_day |-> R(0)]
    ELSE [ok |-> TRUE, err |-> "",
          g |-> SyntheticWeather_irradiance_w_m2(
                    SyntheticWeather(built.config), t),
          g_next_day |-> SyntheticWeather_irradiance_w_m2(
                             SyntheticWeather(built.config),
                             Add(t, R(SecondsPerDay)))]

\* w = build_weather(SyntheticWeatherConfig(**kw)), then w.irradiance_w_m2(t)
\* and w.irradiance_w_m2(t + 86400.0)
SyntheticWeather_irradiance_call ==
    /\ Callable
    /\ \E kw \in SyntheticKeywords, t \in {R(0), R(10), R(15), R(20), R(25)} :
           probe' = Probe("SyntheticWeather.irradiance_w_m2",
                             [kw |-> kw, t |-> t],
                             SyntheticIrradiance(SyntheticWeatherConfig(kw), t),
                             <<>>)
    /\ LibraryFrame

\* the configuration of tests/test_weather.py test_build_weather_synthetic,
\* as the dataclass accepts it, then w.ambient_temperature_k(t)
SyntheticWeather_ambient_call ==
    /\ Callable
    /\ \E t \in {R(0), R(123), Q(1, 2), Q(3, 2)}, amplitude \in {R(0), R(2)} :
           probe' = Probe("SyntheticWeather.ambient_temperature_k",
                             [t |-> t, amplitude |-> amplitude],
                             SyntheticWeather_ambient_temperature_k(
                                 SyntheticWeather(
                                     [sunrise_s |-> R(0), sunset_s |-> R(10),
                                      peak_irradiance_w_m2 |-> R(100),
                                      ambient_mean_k |-> R(300),
                                      ambient_amplitude_k |-> amplitude,
                                      ambient_period_s |-> R(1)]), t),
                             <<>>)
    /\ LibraryFrame

ambient_sinusoid_k_call ==
    /\ Callable
    /\ \E kw \in AmbientKeywords :
           probe' = Probe("ambient_sinusoid_k", kw,
                             ambient_sinusoid_k_kw(kw), <<>>)
    /\ LibraryFrame

\* load_config on a file with this [weather] table
parse_weather_call ==
    /\ Callable
    /\ \E table \in WeatherTables :
           probe' = Probe("_parse_weather", table, parse_weather(table), <<>>)
    /\ LibraryFrame

\* the floats a parameter is constructed with
ParamValues == {R(-1), R(0), Q(1, 2), R(1), R(2), NaN, PosInf, NegInf}

CollectorParams_call ==
    /\ Callable
    /\ \E p \in [area_m2 : ParamValues, heat_removal_factor : ParamValues,
                 optical_efficiency : ParamValues,
                 loss_coefficient_w_m2k : ParamValues] :
           probe' = Probe("CollectorParams", p, CollectorParams(p), <<>>)
    /\ LibraryFrame

TankParams_call ==
    /\ Callable
    /\ \E p \in [mass_kg : ParamValues, cp_j_kgk : ParamValues,
                 ua_w_k : ParamValues, initial_temperature_k : ParamValues,
                 room_temperature_k : ParamValues] :
           probe' = Probe("TankParams", p, TankParams(p), <<>>)
    /\ LibraryFrame

PumpParams_call ==
    /\ Callable
    /\ \E p \in [mass_flow_kg_s : ParamValues] :
           probe' = Probe("PumpParams", p, PumpParams(p), <<>>)
    /\ LibraryFrame

ControlParams_call ==
    /\ Callable
    /\ \E p \in [enabled : BOOLEAN, delta_t_on_k : ParamValues,
                 delta_t_off_k : ParamValues,
                 min_irradiance_w_m2 : ParamValues] :
           probe' = Probe("ControlParams", p, ControlParams(p), <<>>)
    /\ LibraryFrame

SimulationParams_call ==
    /\ Callable
    /\ \E p \in [t0_s : ParamValues, dt_s : ParamValues,
                 duration_s : ParamValues] :
           probe' = Probe("SimulationParams", p, SimulationParams(p), <<>>)
    /\ LibraryFrame

\* the longest result series handed to the CSV export
MaxRows == 2

ExportInputs ==
    [times_s : Seqs({R(0), R(1)}, MaxRows),
     tank_temperature_k : Seqs({R(4), R(6)}, MaxRows),
     ambient_temperature_k : Seqs({R(5)}, MaxRows),
     irradiance_w_m2 : Seqs({R(2)}, MaxRows),
     pump_on : Seqs(BOOLEAN, MaxRows)]

write_results_csv_call ==
    /\ Callable
    /\ \E a \in ExportInputs :
           probe' = Probe("_write_results_csv", a,
                          write_results_csv(a.times_s, a.tank_temperature_k,
                                            a.ambient_temperature_k,
                                            a.irradiance_w_m2, a.pump_on),
                          <<>>)
    /\ LibraryFrame

\* CsvWeatherConfig with its default column names
DefaultCsvColumns ==
    [time_column |-> "time_s", irradiance_column |-> "irradiance_w_m2",
     ambient_column |-> "ambient_k", extrapolation |-> "clamp"]

\* weather files: a full header or one without the ambient column; rows that
\* are well formed, hold a text or an empty cell, or are short of a cell
CsvFiles ==
    [header : {<<"time_s", "irradiance_w_m2", "ambient_k">>,
               <<"time_s", "irradiance_w_m2">>},
     rows : Seqs({<<"0", "2", "5">>, <<"1", "2", "5">>, <<"2", "1", "5">>,
                  <<"1", "abc", "5">>, <<"1", "2", "">>, <<"1", "2">>},
                 MaxSeriesLen)]

read_csv_weather_call ==
    /\ Callable
    /\ \E file \in CsvFiles :
           probe' = Probe("_read_csv_weather",
                          [file |-> file, config |-> DefaultCsvColumns],
                          read_csv_file(file, DefaultCsvColumns, 1, <<>>),
                          <<>>)
    /\ LibraryFrame

NextLibrary ==
    \/ TimeSeries_call
    \/ value_at_call
    \/ collector_useful_heat_w_call
    \/ collector_outlet_k_call
    \/ euler_step_call
    \/ rk4_step_call
    \/ euler_step_float_call
    \/ rk4_step_float_call
    \/ irradiance_clear_day_w_m2_call
    \/ SyntheticWeather_irradiance_call
    \/ SyntheticWeather_ambient_call
    \/ ambient_sinusoid_k_call
    \/ parse_weather_call
    \/ CollectorParams_call
    \/ TankParams_call
    \/ PumpParams_call
    \/ ControlParams_call
    \/ SimulationParams_call
    \/ write_results_csv_call
    \/ read_csv_weather_call

InitLibrary == InitWith("library", 1)

SpecLibrary == InitLibrary /\ [][NextLibrary]_vars

(***************************************************************************)
(* cli.py: the demo supervisor _run_webapp.  webapp.pc is its position:    *)
(* "start_backend", "record_backend", "start_frontend", "record_frontend", *)
(* "polling", "cleanup" (the for loop of cleanup, at processes[i]), "wait"  *)
(* (inside proc.wait(timeout=5)), "exited".  why is what called cleanup:   *)
(* "loop" (a child was seen to have exited), "except" (the except clause), *)
(* "signal" (the handler).  A child is "none", "running", "terminating"    *)
(* (terminate sent, still alive), or gone: "exited", "terminated",         *)
(* "killed".                                                               *)
(***************************************************************************)
\* signals delivered to one supervisor
MaxSignals == 2

Alive == {"running", "terminating"}

WebappFrame ==
    UNCHANGED <<mode, calls_left, pc, caller, solver, config, weather, locals,
                step_log, controller_calls, ctl, error, result, history, probe>>

\* subprocess.Popen(...) returns, or raises into the except clause
Popen(name, next) ==
    \/ webapp' = [webapp EXCEPT !.pc = next, !.child[name] = "running"]
    \/ webapp' = [webapp EXCEPT !.pc = "cleanup", !.why = "except", !.i = 1]

start_backend ==
    /\ webapp.pc = "start_backend"
    /\ Popen("backend", "record_backend")
    /\ WebappFrame

\* processes.append(backend_proc)
record_backend ==
    /\ webapp.pc = "record_backend"
    /\ webapp' = [webapp EXCEPT !.pc = "start_frontend",
                                !.processes = Append(@, "backend")]
    /\ WebappFrame

start_frontend ==
    /\ webapp.pc = "start_frontend"
    /\ Popen("frontend", "record_frontend")
    /\ WebappFrame

\* processes.append(frontend_proc)
record_frontend ==
    /\ webapp.pc = "record_frontend"
    /\ webapp' = [webapp EXCEPT !.pc = "polling",
                                !.processes = Append(@, "frontend")]
    /\ WebappFrame

\* the polling loop finds a process whose poll() is not None: cleanup()
poll_loop ==
    /\ webapp.pc = "polling"
    /\ \E k \in 1..Len(webapp.processes) :
           webapp.child[webapp.processes[k]] \notin Alive
    /\ webapp' = [webapp EXCEPT !.pc = "cleanup", !.why = "loop", !.i = 1]
    /\ WebappFrame

\* a child ends by itself
child_exits ==
    /\ webapp.pc # "exited"
    /\ \E c \in Children :
           /\ webapp.child[c] \in Alive
           /\ webapp' = [webapp EXCEPT !.child[c] =
                             IF @ = "running" THEN "exited" ELSE "terminated"]
    /\ WebappFrame

\* SIGINT or SIGTERM: the handler cleanup(signum, frame) starts in the main
\* thread wherever it is; it ends in sys.exit(0), so what it interrupted is
\* never resumed
signal_handler ==
    /\ webapp.pc # "exited"
    /\ webapp.signals < MaxSignals
    /\ webapp' = [webapp EXCEPT !.pc = "cleanup", !.why = "signal", !.i = 1,
                                !.signals = @ + 1]
    /\ WebappFrame

\* one round of the for loop of cleanup: poll, and terminate if alive
cleanup_next ==
    /\ webapp.pc = "cleanup"
    /\ webapp.i <= Len(webapp.processes)
    /\ IF webapp.child[webapp.processes[webapp.i]] \in Alive
       THEN webapp' = [webapp EXCEPT !.pc = "wait",
                           !.child[webapp.processes[webapp.i]] = "terminating"]
       ELSE webapp' = [webapp EXCEPT !.i = @ + 1]
    /\ WebappFrame

\* proc.wait(timeout=5) returns: the child ended in time
wait_returns ==
    /\ webapp.pc = "wait"
    /\ webapp.child[webapp.processes[webapp.i]] \notin Alive
    /\ webapp' = [webapp EXCEPT !.pc = "cleanup", !.i = @ + 1]
    /\ WebappFrame

\* proc.wait(timeout=5) raises TimeoutExpired: proc.kill()
wait_times_out ==
    /\ webapp.pc = "wait"
    /\ webapp.child[webapp.processes[webapp.i]] \in Alive
    /\ webapp' = [webapp EXCEPT !.pc = "cleanup", !.i = @ + 1,
                       !.child[webapp.processes[webapp.i]] = "killed"]
    /\ WebappFrame

\* the end of cleanup: sys.exit(0) in the handler; back in the loop, raise
\* typer.Exit, an Exception that the except clause catches, which calls
\* cleanup again and raises typer.Exit(1)
cleanup_done ==
    /\ webapp.pc = "cleanup"
    /\ webapp.i > Len(webapp.processes)
    /\ IF webapp.why = "loop"
       THEN webapp' = [webapp EXCEPT !.why = "except", !.i = 1]
       ELSE webapp' = [webapp EXCEPT !.pc = "exited"]
    /\ WebappFrame

NextWebapp ==
    \/ start_backend
    \/ record_backend
    \/ start_frontend
    \/ record_frontend
    \/ poll_loop
    \/ child_exits
    \/ signal_handler
    \/ cleanup_next
    \/ wait_returns
    \/ wait_times_out
    \/ cleanup_done

InitWebapp == InitWith("webapp", 0)

SpecWebapp == InitWebapp /\ [][NextWebapp]_vars

(***************************************************************************)
(* Properties                                                              *)
(***************************************************************************)
\* duration_s is an exact multiple of dt_s
IsMultiple(sim) == Div(sim.duration_s, sim.dt_s)[2] = 1

Last(q) == q[Len(q)]

\* C1: for a duration that is an exact multiple of dt, the five sequences
\* run_simulation returns all have length duration/dt + 1, the first time is
\* t0, consecutive times differ by dt, and the last time is t0 + duration.
C1_OutputLengthAndTimes ==
    (pc = "returned" /\ IsMultiple(config.sim)) =>
        LET n == Div(config.sim.duration_s, config.sim.dt_s)[1]
        IN  /\ Len(result.times_s) = n + 1
            /\ Len(result.tank_temperature_k) = n + 1
            /\ Len(result.ambient_temperature_k) = n + 1
            /\ Len(result.irradiance_w_m2) = n + 1
            /\ Len(result.pump_on) = n + 1
            /\ result.times_s[1] = config.sim.t0_s
            /\ \A i \in 1..n :
                 result.times_s[i + 1] = Add(result.times_s[i], config.sim.dt_s)
            /\ Last(result.times_s) =
                   Add(config.sim.t0_s, config.sim.duration_s)

C1_Witness ==
    /\ pc = "returned"
    /\ IsMultiple(config.sim)
    /\ config.sim.t0_s # R(0)
    /\ config.sim.dt_s = R(1)
    /\ Len(result.times_s) = MaxDuration + 1

\* C2: a run whose duration is not an exact multiple of dt fails with a
\* configuration error before the loop starts and produces no sample.
C2_NonMultipleFailsFast ==
    (caller = "direct" /\ ~IsMultiple(config.sim)) =>
        /\ pc = "raised"
        /\ error = "ValueError: duration_s must be an integer multiple of dt_s"
        /\ times_s = <<>>

\* the times of the four right-hand-side evaluations of a step starting at t
StageTimes(t, dt) ==
    <<t, Add(t, Div(dt, R(2))), Add(t, Div(dt, R(2))), Add(t, dt)>>

\* C3: the four right-hand-side evaluations of step i all use the flow chosen
\* by the pump flag of sample i (design flow if ON, 0 if OFF), at the times
\* t, t+dt/2, t+dt/2, t+dt, each with the weather sampled at its own time.
C3_FlowHeldWeatherResampled ==
    \A i \in 1..Len(step_log) :
        LET stage == StageTimes(times_s[i], config.sim.dt_s)
            flow == IF pump_on_series[i]
                    THEN config.pump.mass_flow_kg_s ELSE R(0)
        IN  /\ Len(step_log[i]) <= 4
            /\ (\A k \in 1..Len(step_log[i]) : step_log[i][k].ok)
                   => Len(step_log[i]) = 4
            /\ \A k \in 1..Len(step_log[i]) :
                 LET call == step_log[i][k]
                 IN  /\ call.m_dot = flow
                     /\ call.t = stage[k]
                     /\ call.ok =>
                          /\ call.g =
                               CsvWeather_irradiance_w_m2(weather, stage[k]).v
                          /\ call.t_amb =
                               CsvWeather_ambient_temperature_k(weather,
                                                                stage[k]).v

\* a step with the pump ON whose weather differs between sub-stages and
\* after which the controller decides OFF
C3_Witness ==
    \E i \in 1..Len(step_log) :
        /\ Len(step_log[i]) = 4
        /\ pump_on_series[i]
        /\ Gt(config.pump.mass_flow_kg_s, R(0))
        /\ step_log[i][1].g # step_log[i][2].g
        /\ step_log[i][2].g # step_log[i][4].g
        /\ Len(pump_on_series) > i
        /\ ~pump_on_series[i + 1]

\* the nominal outlet temperature of a controller call, at the design flow
NominalOutlet(call) ==
    collector_outlet_k(call.t_tank,
        collector_useful_heat_w(call.t_tank, call.t_amb, call.g, call.collector),
        call.pump.mass_flow_kg_s, call.tank.cp_j_kgk)

Threshold(call) ==
    Add(call.t_tank,
        IF call.on THEN call.control.delta_t_off_k
        ELSE call.control.delta_t_on_k)

\* C4: with control enabled and irradiance at or above the minimum, the
\* controller returns ON exactly when the nominal outlet temperature is
\* strictly above T_tank + delta_t_off (pump ON) or T_tank + delta_t_on (pump
\* OFF); equality yields OFF.
C4_HysteresisThresholds ==
    (/\ ctl.called
     /\ ctl.control.enabled
     /\ Ge(ctl.g, ctl.control.min_irradiance_w_m2)) =>
        /\ ctl.out = Gt(NominalOutlet(ctl), Threshold(ctl))
        /\ NominalOutlet(ctl) = Threshold(ctl) => ~ctl.out

\* a running pump whose nominal outlet equals the OFF threshold, which lies
\* below the ON threshold
C4_Witness ==
    /\ ctl.called
    /\ ctl.control.enabled
    /\ Ge(ctl.g, ctl.control.min_irradiance_w_m2)
    /\ ctl.on
    /\ Lt(ctl.control.delta_t_off_k, ctl.control.delta_t_on_k)
    /\ NominalOutlet(ctl) = Threshold(ctl)
    /\ ~ctl.out

\* C5: with control disabled the controller returns ON whatever the prior
\* state, irradiance and temperatures, and every pump-on flag of a run is True.
C5_DisabledControlForcesOn ==
    /\ (ctl.called /\ ~ctl.control.enabled) => ctl.out
    /\ (caller = "direct" /\ ~config.control.enabled) =>
          /\ \A i \in 1..Len(pump_on_series) : pump_on_series[i]
          /\ \A i \in 1..Len(result.pump_on) : result.pump_on[i]

\* a finished run with control disabled that had a sample below the
\* irradiance minimum
C5_Witness ==
    /\ pc = "returned"
    /\ caller = "direct"
    /\ ~config.control.enabled
    /\ Len(result.pump_on) >= 2
    /\ \E i \in 1..Len(result.irradiance_w_m2) :
         Lt(result.irradiance_w_m2[i], config.control.min_irradiance_w_m2)

\* C6: with control enabled, every sample whose recorded irradiance is below
\* control.min_irradiance has its pump-on flag False.
C6_LowIrradianceForcesOff ==
    (caller = "direct" /\ config.control.enabled) =>
        \A i \in 1..Len(irradiance_w_m2) :
            Lt(irradiance_w_m2[i], config.control.min_irradiance_w_m2)
                => ~pump_on_series[i]

\* a sample below the minimum right after a sample with the pump ON
C6_Witness ==
    /\ caller = "direct"
    /\ config.control.enabled
    /\ \E i \in 2..Len(irradiance_w_m2) :
         /\ pump_on_series[i - 1]
         /\ Lt(irradiance_w_m2[i], config.control.min_irradiance_w_m2)
         /\ ~pump_on_series[i]

\* the controller's decision for sample i of the current run
DecisionAt(i) ==
    update_pump_state(IF i = 1 THEN FALSE ELSE pump_on_series[i - 1],
                      tank_temperature_k[i], ambient_temperature_k[i],
                      irradiance_w_m2[i], config.collector, config.pump,
                      config.tank, config.control)

\* C7: the controller runs once per sample, before the sample is recorded and
\* before the step is integrated; the flag of sample i is the decision made
\* from the values of sample i with the flag of sample i-1 as prior state (OFF
\* before the first), and that flag selects the flow of the step from i to i+1.
C7_ControllerOncePerSample ==
    caller = "direct" =>
        /\ controller_calls = Len(pump_on_series)
        /\ Len(times_s) = Len(pump_on_series)
        /\ Len(tank_temperature_k) = Len(pump_on_series)
        /\ pc = "integrate" => Len(step_log) = Len(pump_on_series) - 1
        /\ pc = "sample" => Len(step_log) = Len(pump_on_series)
        /\ Len(step_log) <= Len(pump_on_series)
        /\ \A i \in 1..Len(pump_on_series) : pump_on_series[i] = DecisionAt(i)
        /\ \A i \in 1..Len(step_log) :
             step_log[i][1].m_dot =
                 IF pump_on_series[i] THEN config.pump.mass_flow_kg_s ELSE R(0)

\* the flag changes from OFF to ON between two samples and the step after the
\* change runs at the design flow
C7_Witness ==
    /\ caller = "direct"
    /\ Gt(config.pump.mass_flow_kg_s, R(0))
    /\ \E i \in 2..Len(step_log) :
         /\ ~pump_on_series[i - 1]
         /\ pump_on_series[i]
         /\ step_log[i - 1][1].m_dot = R(0)
         /\ step_log[i][1].m_dot = config.pump.mass_flow_kg_s

\* C8: run_simulation keeps no state between calls: any two finished calls
\* with the same configuration, whatever ran between them, ended the same way
\* with the same sequences.
C8_RunsAreRepeatable ==
    \A i, j \in 1..Len(history) :
        (/\ history[i].config = history[j].config
         /\ history[i].caller = history[j].caller) =>
            /\ history[i].status = history[j].status
            /\ history[i].error = history[j].error
            /\ history[i].result = history[j].result

\* the same configuration run first and third, a different one in between
\* that ends with the pump ON, and a first decision that hysteresis would
\* have made differently from an ON prior state
C8_Witness ==
    /\ Len(history) >= 3
    /\ history[1].caller = "direct"
    /\ history[2].caller = "direct"
    /\ history[3].caller = "direct"
    /\ history[1].config = history[3].config
    /\ history[2].config # history[1].config
    /\ history[2].status = "returned"
    /\ Last(history[2].result.pump_on)
    /\ history[3].status = "returned"
    /\ ~history[3].result.pump_on[1]
    /\ Last(history[3].result.pump_on)

\* no collector or tank losses, pump forced on at a positive flow, weather
\* that is the same at all times
IsLinearCase(c) ==
    /\ c.collector.loss_coefficient_w_m2k = R(0)
    /\ c.tank.ua_w_k = R(0)
    /\ ~c.control.enabled
    /\ Gt(c.pump.mass_flow_kg_s, R(0))
    /\ c.weather.extrapolation = "clamp"
    /\ \A i \in 1..Len(c.weather.rows) :
         /\ c.weather.rows[i][2] = c.weather.rows[1][2]
         /\ c.weather.rows[i][3] = c.weather.rows[1][3]

\* T_initial + k*dt*Q_u/(mass*c_p) with Q_u = A*F_R*eta0*G
LinearSolution(c, k) ==
    LET q_u == Mul(Mul(Mul(c.collector.area_m2, c.collector.heat_removal_factor),
                       c.collector.optical_efficiency),
                   c.weather.rows[1][2])
    IN  Add(c.tank.initial_temperature_k,
            Div(Mul(Mul(R(k), c.sim.dt_s), q_u),
                Mul(c.tank.mass_kg, c.tank.cp_j_kgk)))

\* the tank temperatures of a run without losses follow the linear solution
FollowsLinearSolution ==
    (caller = "direct" /\ IsLinearCase(config)) =>
        \A i \in 1..Len(tank_temperature_k) :
            tank_temperature_k[i] = LinearSolution(config, i - 1)

\* the reference scenario returns 11 samples, the last at temperature final
ReferenceRunEndsAt(final) ==
    (caller = "direct" /\ pc = "returned" /\ config = ReferenceConfig) =>
        /\ Len(result.times_s) = 11
        /\ Len(result.tank_temperature_k) = 11
        /\ Last(result.tank_temperature_k) = R(final)

\* C9 as stated: without losses, with the pump forced on and constant
\* weather, the tank temperature of sample i is T_initial +
\* i*dt*Q_u/(mass*c_p); the reference scenario returns 11 samples and a final
\* temperature of 400 K.
C9_ReferenceEndsAt400 == FollowsLinearSolution /\ ReferenceRunEndsAt(400)

\* C9 (amended): the same linear solution; the reference scenario (Q_u = 100
\* W, mass = 10, c_p = 10, dt = 1, duration = 10, T_initial = 300) returns 11
\* samples and a final temperature of 310 K.
C9_LinearSolution == FollowsLinearSolution /\ ReferenceRunEndsAt(310)

C9_Witness ==
    /\ caller = "direct"
    /\ pc = "returned"
    /\ config = ReferenceConfig
    /\ IsLinearCase(config)
    /\ Len(result.tank_temperature_k) = 11
    /\ Last(result.tank_temperature_k) = LinearSolution(config, 10)

\* C10: a run started from the CLI with a solver choice of rk4 or euler
\* completes: the call of run_simulation does not raise.
C10_CliSolverRunCompletes ==
    (caller = "cli" /\ solver \in {"rk4", "euler"}) => pc # "raised"

\* the grid and the stored values of the series a value_at call queried
FirstTime == probe.args.series.times_s[1]
LastTime == probe.args.series.times_s[Len(probe.args.series.times_s)]
FirstValue == probe.args.series.values[1]
LastValue == probe.args.series.values[Len(probe.args.series.values)]

\* C11: under every extrapolation mode, value_at at a time exactly equal to
\* the first or the last grid time returns the stored endpoint value: no 0
\* under zero mode, no exception under error mode.
C11_BoundaryTiesInRange ==
    probe.fn = "value_at" =>
        /\ probe.args.t = FirstTime => probe.out = Returned(FirstValue)
        /\ probe.args.t = LastTime => probe.out = Returned(LastValue)

\* C12: for a query strictly before the first grid time or strictly after the
\* last, value_at returns the first (resp. last) stored value under clamp,
\* 0 under zero, and under error raises an error saying "before start"
\* below the range and "after end" above it.
C12_OutOfRangeModes ==
    probe.fn = "value_at" =>
        /\ Lt(probe.args.t, FirstTime) =>
             probe.out =
                 CASE probe.args.extrapolation = "clamp" -> Returned(FirstValue)
                   [] probe.args.extrapolation = "zero" -> Returned(R(0))
                   [] probe.args.extrapolation = "error" ->
                        Raised("ValueError: t_s is before start of series")
        /\ Gt(probe.args.t, LastTime) =>
             probe.out =
                 CASE probe.args.extrapolation = "clamp" -> Returned(LastValue)
                   [] probe.args.extrapolation = "zero" -> Returned(R(0))
                   [] probe.args.extrapolation = "error" ->
                        Raised("ValueError: t_s is after end of series")

C12_Witness ==
    /\ probe.fn = "value_at"
    /\ probe.args.extrapolation = "error"
    /\ Gt(probe.args.t, LastTime)
    /\ probe.out = Raised("ValueError: t_s is after end of series")

\* the segment a linear scan of the grid finds for t
LinearScan(times, t) ==
    CHOOSE i \in 1..(Len(times) - 1) : Le(times[i], t) /\ Lt(t, times[i + 1])

\* C13: for a query strictly inside the grid the binary search ends with
\* adjacent indices lo, hi bracketing t, the pair a linear scan finds; the
\* value returned is the linear interpolation over that pair, and at an
\* interior grid point it is the value stored there.
C13_BinarySearchBrackets ==
    (probe.fn = "value_at" /\ Gt(probe.args.t, FirstTime)
        /\ Lt(probe.args.t, LastTime)) =>
        LET times == probe.args.series.times_s
            values == probe.args.series.values
            t == probe.args.t
            lo == probe.trace[1]
            hi == probe.trace[2]
        IN  /\ hi - lo = 1
            /\ Le(times[lo], t) /\ Le(t, times[hi])
            /\ lo = LinearScan(times, t)
            /\ probe.out =
                 Returned(Add(values[lo],
                              Div(Mul(Sub(t, times[lo]),
                                      Sub(values[hi], values[lo])),
                                  Sub(times[hi], times[lo]))))
            /\ \A k \in 1..Len(times) :
                 times[k] = t => probe.out = Returned(values[k])

C13_Witness ==
    /\ probe.fn = "value_at"
    /\ Len(probe.args.series.times_s) = 6
    /\ probe.args.t = R(4)
    /\ probe.trace = <<4, 5>>
    /\ probe.out = Returned(R(3))

\* C14: constructing a TimeSeries fails exactly when the two sequences
\* differ in length, or hold fewer than two points, or some time is not
\* greater than its predecessor; a series that constructs has equal lengths,
\* at least two points and strictly increasing times.
C14_ConstructionValidates ==
    probe.fn = "TimeSeries" =>
        LET times == probe.args.times_s
            values == probe.args.values
        IN  /\ ~probe.out.ok <=>
                 \/ Len(times) # Len(values)
                 \/ Len(times) < 2
                 \/ \E i \in 2..Len(times) : ~Lt(times[i - 1], times[i])
            /\ probe.out.ok =>
                 /\ Len(times) = Len(values)
                 /\ Len(times) >= 2
                 /\ \A i \in 1..Len(times), j \in 1..Len(times) :
                      i < j => Lt(times[i], times[j])

C14_Witness ==
    /\ probe.fn = "TimeSeries"
    /\ probe.args.times_s = <<R(1), R(1)>>
    /\ Len(probe.args.values) = 2
    /\ probe.out.err = "TimeSeries.times_s must be strictly increasing"

\* A * F_R * eta0 * G and A * F_R * U_L * (T_in - T_amb) of a direct call of
\* collector_useful_heat_w
OpticalGain ==
    Mul(Mul(probe.args.collector.area_m2,
            probe.args.collector.heat_removal_factor),
        Mul(probe.args.collector.optical_efficiency, probe.args.irradiance))

ThermalLoss ==
    Mul(Mul(probe.args.collector.area_m2,
            probe.args.collector.heat_removal_factor),
        Mul(probe.args.collector.loss_coefficient_w_m2k,
            Sub(probe.args.t_in_k, probe.args.t_amb_outdoor_k)))

\* C15: collector_useful_heat_w returns max(0, A*F_R*(eta0*G - U_L*(T_in -
\* T_amb))): never negative, exactly 0 whenever the thermal loss is at least
\* the optical gain, and the difference of the two otherwise.
C15_UsefulHeatClamped ==
    probe.fn = "collector_useful_heat_w" =>
        /\ Ge(probe.out, R(0))
        /\ Ge(ThermalLoss, OpticalGain) => probe.out = R(0)
        /\ Lt(ThermalLoss, OpticalGain) =>
             probe.out = Sub(OpticalGain, ThermalLoss)

C15_Witness ==
    /\ probe.fn = "collector_useful_heat_w"
    /\ Gt(ThermalLoss, OpticalGain)
    /\ Gt(OpticalGain, R(0))
    /\ probe.out = R(0)

\* C16: collector_outlet_k returns the inlet temperature unchanged whenever
\* m_dot <= 0, whatever the useful heat, and never divides by zero (its
\* result always has a nonzero denominator); for m_dot > 0 it returns
\* T_in + Q_u / (m_dot * c_p), i.e. (T_out - T_in) * m_dot * c_p = Q_u.
C16_OutletNoFlow ==
    probe.fn = "collector_outlet_k" =>
        /\ probe.out[2] > 0
        /\ Le(probe.args.m_dot_kg_s, R(0)) => probe.out = probe.args.t_in_k
        /\ Gt(probe.args.m_dot_kg_s, R(0)) =>
             Mul(Sub(probe.out, probe.args.t_in_k),
                 Mul(probe.args.m_dot_kg_s, probe.args.cp_j_kgk))
                 = probe.args.q_u_w

C16_Witness ==
    /\ probe.fn = "collector_outlet_k"
    /\ probe.args.m_dot_kg_s = R(0)
    /\ probe.args.q_u_w = R(100)
    /\ probe.out = probe.args.t_in_k

\* the float expression y + dt * c of a direct call of a stepper
LinearStepFloat == FAdd(probe.args.y, FMul(probe.args.dt_s, probe.args.f.constant))

\* C17: for a right-hand side returning the same constant c everywhere, one
\* step of euler_step and one step of rk4_step both return exactly
\* y + dt * c, so they agree with each other.
C17_ConstantDerivativeExact ==
    /\ probe.fn \in {"euler_step", "rk4_step"} =>
         probe.out = Returned(Add(probe.args.y,
                                  Mul(probe.args.dt_s, probe.args.f.constant)))
    /\ probe.fn \in {"euler_step (float)", "rk4_step (float)"} =>
         probe.out = LinearStepFloat

\* |a - b| <= 8 * 2^-MantissaBits * (|y| + |dt * c|)
WithinRounding(a, b) ==
    LET diff == IF Lt(a, b) THEN Sub(b, a) ELSE Sub(a, b)
        y == probe.args.y
        dc == Mul(probe.args.dt_s, probe.args.f.constant)
        size == Add(IF Lt(y, R(0)) THEN Sub(R(0), y) ELSE y,
                    IF Lt(dc, R(0)) THEN Sub(R(0), dc) ELSE dc)
    IN  Le(diff, Mul(Q(8, Pow2(MantissaBits)), size))

\* C17, as it holds: in exact arithmetic both steppers return y + dt * c;
\* under rounding euler_step returns the float y + dt * c exactly, while
\* rk4_step returns it to within rounding error only.
C17_ExactUpToRounding ==
    /\ probe.fn \in {"euler_step", "rk4_step"} =>
         probe.out = Returned(Add(probe.args.y,
                                  Mul(probe.args.dt_s, probe.args.f.constant)))
    /\ probe.fn = "euler_step (float)" => probe.out = LinearStepFloat
    /\ probe.fn = "rk4_step (float)" => WithinRounding(probe.out, LinearStepFloat)

\* an RK4 step on a constant derivative that misses the float y + dt * c
C17_Witness ==
    /\ probe.fn = "rk4_step (float)"
    /\ probe.out # LinearStepFloat
    /\ WithinRounding(probe.out, LinearStepFloat)

\* C18: synthetic irradiance is 0 before sunrise and after sunset, 0 at
\* sunrise and at sunset, the configured peak at the midpoint of the window,
\* and within [0, peak] everywhere inside the window.
C18_HalfSineWindow ==
    probe.fn = "irradiance_clear_day_w_m2" =>
        /\ (Lt(probe.args.t, probe.args.sunrise_s)
              \/ Gt(probe.args.t, probe.args.sunset_s)) => probe.out = R(0)
        /\ probe.args.t = probe.args.sunrise_s => probe.out = R(0)
        /\ probe.args.t = probe.args.sunset_s => probe.out = R(0)
        /\ probe.args.t = Div(Add(probe.args.sunrise_s, probe.args.sunset_s),
                              R(2)) => probe.out = probe.args.peak_w_m2
        /\ Ge(probe.out, R(0)) /\ Le(probe.out, probe.args.peak_w_m2)

\* C19: the synthetic weather's irradiance at t + 86400 s equals its
\* irradiance at t, for every t.
C19_IrradianceRepeatsDaily ==
    (probe.fn = "SyntheticWeather.irradiance_w_m2" /\ probe.out.ok) =>
        probe.out.g_next_day = probe.out.g

\* C20: ambient_sinusoid_k takes a named peak time: called with peak_s it
\* returns mean + amplitude at t = peak_s and mean - amplitude half a period
\* later; and the synthetic weather config the loader builds, which carries
\* ambient_peak_s (0.625 * period by default), constructs.
C20_AmbientPeakTime ==
    /\ (probe.fn = "ambient_sinusoid_k" /\ "peak_s" \in DOMAIN probe.args) =>
         /\ probe.out.ok
         /\ probe.args.t_s = probe.args.peak_s =>
              probe.out.v = Add(probe.args.mean_k, probe.args.amplitude_k)
         /\ probe.args.t_s = Add(probe.args.peak_s,
                                 Div(probe.args.period_s, R(2))) =>
              probe.out.v = Sub(probe.args.mean_k, probe.args.amplitude_k)
    /\ (probe.fn = "_parse_weather"
          /\ Get(probe.args, "kind", "synthetic") = "synthetic") =>
         probe.out.ok

\* value is a finite number v with v >= 0
NonNegative(v) == isfinite(v) /\ v[1] >= 0

\* value is a finite number v with v > 0
Positive(v) == isfinite(v) /\ v[1] > 0

\* value is a finite number v with 0 <= v <= 1
UnitInterval(v) == isfinite(v) /\ v[1] >= 0 /\ v[1] <= v[2]

Offending(fn, p) ==
    CASE fn = "CollectorParams" ->
           (IF Positive(p.area_m2) THEN {} ELSE {"collector.area_m2"})
           \cup (IF UnitInterval(p.heat_removal_factor) THEN {}
                 ELSE {"collector.heat_removal_factor"})
           \cup (IF UnitInterval(p.optical_efficiency) THEN {}
                 ELSE {"collector.optical_efficiency"})
           \cup (IF NonNegative(p.loss_coefficient_w_m2k) THEN {}
                 ELSE {"collector.loss_coefficient_w_m2k"})
      [] fn = "TankParams" ->
           (IF Positive(p.mass_kg) THEN {} ELSE {"tank.mass_kg"})
           \cup (IF Positive(p.cp_j_kgk) THEN {} ELSE {"tank.cp_j_kgk"})
           \cup (IF NonNegative(p.ua_w_k) THEN {} ELSE {"tank.ua_w_k"})
           \cup (IF NonNegative(p.initial_temperature_k) THEN {}
                 ELSE {"tank.initial_temperature_k"})
           \cup (IF NonNegative(p.room_temperature_k) THEN {}
                 ELSE {"tank.room_temperature_k"})
      [] fn = "PumpParams" ->
           IF NonNegative(p.mass_flow_kg_s) THEN {}
           ELSE {"pump.mass_flow_kg_s"}
      [] fn = "ControlParams" ->
           (IF NonNegative(p.delta_t_on_k) THEN {}
            ELSE {"control.delta_t_on_k"})
           \cup (IF NonNegative(p.delta_t_off_k) THEN {}
                 ELSE {"control.delta_t_off_k"})
           \cup (IF NonNegative(p.min_irradiance_w_m2) THEN {}
                 ELSE {"control.min_irradiance_w_m2"})
           \cup (IF NonNegative(p.delta_t_on_k)
                       /\ NonNegative(p.delta_t_off_k)
                       /\ Gt(p.delta_t_off_k, p.delta_t_on_k)
                 THEN {"control.delta_t_off_k", "control.delta_t_on_k"}
                 ELSE {})
      [] fn = "SimulationParams" ->
           (IF isfinite(p.t0_s) THEN {} ELSE {"simulation.t0_s"})
           \cup (IF Positive(p.dt_s) THEN {} ELSE {"simulation.dt_s"})
           \cup (IF NonNegative(p.duration_s) THEN {}
                 ELSE {"simulation.duration_s"})

ParameterSets ==
    {"CollectorParams", "TankParams", "PumpParams", "ControlParams",
     "SimulationParams"}

\* C22: a parameter set constructed with a field outside its domain (a mass,
\* c_p, area or dt that is not > 0; F_R or eta0 outside [0, 1]; a negative
\* U_L, UA, temperature, pump flow, threshold or duration; any NaN or
\* infinity) raises an error that names a field that is outside its domain
\* and no object is built; with every field inside its domain the object is
\* built and holds exactly the values passed.
C22_OutOfDomainRejected ==
    probe.fn \in ParameterSets =>
        LET bad == Offending(probe.fn, probe.args)
        IN  IF bad = {}
            THEN probe.out.ok /\ probe.out.obj = probe.args
            ELSE /\ ~probe.out.ok
                 /\ probe.out.obj = <<>>
                 /\ probe.out.fields # {}
                 /\ probe.out.fields \subseteq bad
                 /\ probe.out.err # ""

\* the test's case: SimulationParams(t0_s=0.0, dt_s=0.0, duration_s=1.0)
C22_Witness ==
    /\ probe.fn = "SimulationParams"
    /\ probe.args = [t0_s |-> R(0), dt_s |-> R(0), duration_s |-> R(1)]
    /\ ~probe.out.ok
    /\ probe.out.err = "simulation.dt_s must be > 0, got "
    /\ probe.out.got = R(0)

\* the five sequences handed to the export have one length
SameLengths(a) ==
    /\ Len(a.tank_temperature_k) = Len(a.times_s)
    /\ Len(a.ambient_temperature_k) = Len(a.times_s)
    /\ Len(a.irradiance_w_m2) = Len(a.times_s)
    /\ Len(a.pump_on) = Len(a.times_s)

\* C23: given five sequences of one length n the CSV export writes the
\* header and exactly n rows, row i holding the i-th entry of each sequence
\* (the pump flag as 0 or 1); given sequences of differing lengths it raises
\* ValueError and has neither created the directory nor opened the file.
C23_ExportRowPerSample ==
    probe.fn = "_write_results_csv" =>
        LET a == probe.args
        IN  IF SameLengths(a)
            THEN /\ probe.out.ok
                 /\ probe.out.header = fieldnames
                 /\ Len(probe.out.rows) = Len(a.times_s)
                 /\ \A i \in 1..Len(a.times_s) :
                        /\ probe.out.rows[i].time_s.text = a.times_s[i]
                        /\ probe.out.rows[i].tank_temperature_k.text
                               = a.tank_temperature_k[i]
                        /\ probe.out.rows[i].ambient_temperature_k.text
                               = a.ambient_temperature_k[i]
                        /\ probe.out.rows[i].irradiance_w_m2.text
                               = a.irradiance_w_m2[i]
                        /\ probe.out.rows[i].pump_on.text
                               = (IF a.pump_on[i] THEN 1 ELSE 0)
            ELSE /\ ~probe.out.ok
                 /\ probe.out.err = "ValueError: Result series length mismatch"
                 /\ ~probe.out.mkdir
                 /\ ~probe.out.opened
                 /\ probe.out.rows = <<>>

\* an export of four series of two samples with a pump series of one
C23_Witness ==
    /\ probe.fn = "_write_results_csv"
    /\ probe.args.times_s = <<R(0), R(1)>>
    /\ probe.args.tank_temperature_k = <<R(4), R(6)>>
    /\ Len(probe.args.ambient_temperature_k) = 2
    /\ Len(probe.args.irradiance_w_m2) = 2
    /\ probe.args.pump_on = <<TRUE>>
    /\ ~probe.out.ok
    /\ ~probe.out.mkdir

\* the configured columns of the probed weather file
ConfiguredColumns ==
    {probe.args.config.time_column, probe.args.config.irradiance_column,
     probe.args.config.ambient_column}

\* the header of the probed weather file has every configured column
ColumnsPresent ==
    \A name \in ConfiguredColumns :
        \E k \in 1..Len(probe.args.file.header) :
            probe.args.file.header[k] = name

\* some data row has, in a configured column, no cell or a cell whose text
\* is not a number
SomeCellNotNumeric ==
    /\ ColumnsPresent
    /\ \E i \in 1..Len(probe.args.file.rows) : \E name \in ConfiguredColumns :
           LET cell == DictReader_cell(probe.args.file.header,
                                       probe.args.file.rows[i], name)
           IN  ~cell.present \/ cell.text \notin DOMAIN Numerals

\* C24: reading a weather file that has fewer than two data rows, lacks a
\* configured column, or has a data row whose cell in a configured column is
\* not numeric raises ValueError and returns no weather source.
C24_MalformedCsvRejected ==
    probe.fn = "_read_csv_weather" =>
        ((Len(probe.args.file.rows) < 2 \/ ~ColumnsPresent
              \/ SomeCellNotNumeric) =>
            /\ ~probe.out.ok
            /\ probe.out.weather = NoWeather
            /\ probe.out.exc = "ValueError")

\* C25: a run that returns has integrated exactly n_steps = floor(duration/dt)
\* times and run the controller and recorded a sample n_steps + 1 times, at
\* t0, t0 + dt, ..., t0 + n_steps*dt; each recorded tank temperature after the
\* first is the RK4 result of the step before it; after the last sample
\* neither the time nor the tank temperature has advanced; and no sample or
\* right-hand-side evaluation is at a time beyond t0 + duration.
C25_IntegratesExactlyNSteps ==
    (pc = "returned" /\ caller = "direct") =>
        LET sim == config.sim
            end == Add(sim.t0_s, sim.duration_s)
        IN  /\ n_steps = FloorDiv(sim.duration_s, sim.dt_s)
            /\ Len(step_log) = n_steps
            /\ controller_calls = n_steps + 1
            /\ Len(result.times_s) = n_steps + 1
            /\ Len(result.tank_temperature_k) = n_steps + 1
            /\ Len(result.pump_on) = n_steps + 1
            /\ \A i \in 1..(n_steps + 1) :
                   /\ result.times_s[i] = Add(sim.t0_s, Mul(R(i - 1), sim.dt_s))
                   /\ Le(result.times_s[i], end)
            /\ result.tank_temperature_k[1] = config.tank.initial_temperature_k
            /\ \A i \in 1..n_steps :
                   /\ result.tank_temperature_k[i + 1] =
                          rk4_result(result.tank_temperature_k[i], sim.dt_s,
                                     step_log[i]).v
                   /\ \A k \in 1..Len(step_log[i]) : Le(step_log[i][k].t, end)
            /\ t_s = Last(result.times_s)
            /\ t_tank_k = Last(result.tank_temperature_k)

\* a returned run of three steps during which the tank temperature changed
C25_Witness ==
    /\ pc = "returned"
    /\ caller = "direct"
    /\ n_steps = 3
    /\ Len(step_log) = 3
    /\ controller_calls = 4
    /\ result.tank_temperature_k[4] # result.tank_temperature_k[3]
    /\ t_tank_k = result.tank_temperature_k[4]

\* the controller's answer to the inputs of the latest call, from prior state s
DecisionFrom(s) ==
    update_pump_state(s, ctl.t_tank, ctl.t_amb, ctl.g, ctl.collector,
                      ctl.pump, ctl.tank, ctl.control)

\* C26: for control parameters with delta_t_off <= delta_t_on, the controller
\* applied to its own decision and the same inputs returns that decision
\* again, from either prior state; and if a prior OFF state yields ON then a
\* prior ON state yields ON too.
C26_DecisionIsFixedPoint ==
    (ctl.called /\ Le(ctl.control.delta_t_off_k, ctl.control.delta_t_on_k)) =>
        /\ ctl.out = DecisionFrom(ctl.on)
        /\ DecisionFrom(ctl.out) = ctl.out
        /\ DecisionFrom(DecisionFrom(~ctl.on)) = DecisionFrom(~ctl.on)
        /\ DecisionFrom(FALSE) => DecisionFrom(TRUE)

\* a call with the pump ON and the nominal outlet strictly between the two
\* thresholds: the decision is ON, where a prior OFF state stays OFF
C26_Witness ==
    /\ ctl.called
    /\ ctl.control.enabled
    /\ Ge(ctl.g, ctl.control.min_irradiance_w_m2)
    /\ Lt(ctl.control.delta_t_off_k, ctl.control.delta_t_on_k)
    /\ Gt(NominalOutlet(ctl), Add(ctl.t_tank, ctl.control.delta_t_off_k))
    /\ Lt(NominalOutlet(ctl), Add(ctl.t_tank, ctl.control.delta_t_on_k))
    /\ ctl.on
    /\ ctl.out
    /\ ~DecisionFrom(FALSE)

\* the first and last time of the weather file of the current run
WeatherStart == config.weather.rows[1][1]

WeatherEnd == config.weather.rows[Len(config.weather.rows)][1]

\* C27: a run under error extrapolation whose timeline [t0, t0 + duration]
\* lies within the time range of the weather file, endpoints included, does
\* not end by raising.
C27_InRangeRunCompletes ==
    (caller = "direct" /\ config.weather.extrapolation = "error"
       /\ Le(WeatherStart, config.sim.t0_s)
       /\ Le(Add(config.sim.t0_s, config.sim.duration_s), WeatherEnd)) =>
        pc # "raised"

\* C28: with control enabled and a pump design flow of 0, every controller
\* call finds the nominal outlet temperature equal to the tank temperature
\* and decides OFF, and the pump-on flag of every sample of a run is FALSE.
C28_ZeroFlowNeverOn ==
    /\ (ctl.called /\ ctl.control.enabled /\ ctl.pump.mass_flow_kg_s = R(0)) =>
           /\ NominalOutlet(ctl) = ctl.t_tank
           /\ ~ctl.out
    /\ (caller = "direct" /\ config.control.enabled
          /\ config.pump.mass_flow_kg_s = R(0)) =>
           /\ ~pump_on
           /\ \A i \in 1..Len(pump_on_series) : ~pump_on_series[i]
           /\ pc = "returned" =>
                  \A i \in 1..Len(result.pump_on) : ~result.pump_on[i]

\* a returned run of a zero-flow pump under enabled control with at least two
\* samples, at whose last sample a pump with a design flow of 1 kg/s would be
\* switched on
C28_Witness ==
    /\ pc = "returned"
    /\ caller = "direct"
    /\ config.control.enabled
    /\ config.pump.mass_flow_kg_s = R(0)
    /\ Len(result.pump_on) >= 2
    /\ ctl.called
    /\ ctl.pump = config.pump
    /\ ~ctl.out
    /\ update_pump_state(ctl.on, ctl.t_tank, ctl.t_amb, ctl.g, ctl.collector,
                         Pump(R(1)), ctl.tank, ctl.control)

\* the heat-loss rate of the tank of the current run at tank temperature y
LossOnly(y) ==
    Sub(R(0), Mul(Div(config.tank.ua_w_k,
                      Mul(config.tank.mass_kg, config.tank.cp_j_kgk)),
                  Sub(y, config.tank.room_temperature_k)))

\* C29: in a step whose sample has the pump OFF, every right-hand-side
\* evaluation is made with zero flow and equals -(UA/(mass*c_p))*(T - T_room)
\* at its own tank temperature T, whatever the irradiance and the ambient
\* temperature; if UA = 0, or T = T_room at every sub-stage, the tank
\* temperature of the next sample equals that of the current one.
C29_PumpOffCollectorHasNoEffect ==
    caller = "direct" =>
        \A i \in 1..Len(step_log) :
            ~pump_on_series[i] =>
                /\ \A k \in 1..Len(step_log[i]) :
                       /\ step_log[i][k].m_dot = R(0)
                       /\ step_log[i][k].ok =>
                              step_log[i][k].v = LossOnly(step_log[i][k].y)
                /\ (/\ Len(tank_temperature_k) > i
                    /\ \/ config.tank.ua_w_k = R(0)
                       \/ \A k \in 1..Len(step_log[i]) :
                              step_log[i][k].y = config.tank.room_temperature_k)
                       => tank_temperature_k[i + 1] = tank_temperature_k[i]

\* a step with the pump OFF although the design flow is positive, under
\* irradiance that is positive and differs between sub-stages, of a tank
\* without losses that is not at room temperature: its temperature is kept
C29_Witness ==
    /\ caller = "direct"
    /\ Gt(config.pump.mass_flow_kg_s, R(0))
    /\ config.tank.ua_w_k = R(0)
    /\ \E i \in 1..Len(step_log) :
           /\ ~pump_on_series[i]
           /\ Len(step_log[i]) = 4
           /\ Gt(step_log[i][1].g, R(0))
           /\ step_log[i][1].g # step_log[i][2].g
           /\ tank_temperature_k[i] # config.tank.room_temperature_k
           /\ Len(tank_temperature_k) > i
           /\ tank_temperature_k[i + 1] = tank_temperature_k[i]

\* C30: when the supervisor has exited, no child it started is still running.
C30_NoChildLeftRunning ==
    webapp.pc = "exited" =>
        \A c \in Children : webapp.child[c] \notin Alive

====
